---- MODULE Spec2Model ----
(***************************************************************************)
(* State-machine model of the webchat service core:                        *)
(*   - MessageProcessor  (streaming assembly, dedup window, indicators)    *)
(*   - WebSocketManager + RetryStrategy (connection FSM, reconnection)     *)
(*   - SessionManager + StorageManager  (identity, persistence, timeouts)  *)
(*   - StateManager + WeniWebchatService (the view and the wiring)         *)
(*   - HistoryManager (history requests)                                   *)
(* Each component has its own specification (Spec, SpecWS, SpecSM,         *)
(* SpecHist, SpecRetry); the variables of the other components stay at     *)
(* their initial values.  SpecFair is Spec with the indicator timer firing *)
(* fairly, SpecUpd is Spec observed with the update texts of every id.     *)
(* SpecSvc runs the components together as the service wires them.         *)
(***************************************************************************)
EXTENDS Integers, Sequences, FiniteSets, TLC

VARIABLES
  mp,        \* MessageProcessor instance fields; mp.out = events emitted by the last handler
  mpIn,      \* the raw frame handed to the last process() call
  mpLog,     \* summaries of the last two process() calls, oldest first
  mpHist,    \* deltas delivered to the stream opened last (history)
  nFrames,   \* number of frames processed so far
  mpFinal,   \* the last non-empty final texts the stream_end handlers reported, oldest first (history)
  ws,        \* WebSocketManager instance fields, its socket and retry strategy
  wsHist,    \* history of the current loss of connection
  sm,        \* SessionManager instance fields; sm.storage = its StorageManager and the items it holds
  smEnv,     \* Date.now(), window.location.hostname and the config handed to the constructor
  smOp,      \* the last SessionManager operation and what it was given (history)
  state,     \* StateManager.state, the view of the conversation
  svc,       \* WeniWebchatService flags; svc.op = the view operation just made, if any (history)
  hm,        \* HistoryManager instance fields and the promises request() returned
  rs,        \* a RetryStrategy on its own and the last call made on it (history)
  mpUpd      \* per message id, the text of the last message:updated event (history, kept by SpecUpd)

mpVars == <<mp, mpIn, mpLog, mpHist, nFrames, mpFinal>>
wsVars == <<ws, wsHist>>
smVars == <<sm, smEnv, smOp>>
svcVars == <<state, svc, hm, rs, mpUpd>>
vars == <<mpVars, wsVars, smVars, svcVars>>

(***************************************************************************)
(* Bounds                                                                  *)
(***************************************************************************)
MaxFrames == 4
MaxSeq == 2

(***************************************************************************)
(* MessageProcessor: values                                                *)
(***************************************************************************)
STREAM_INITIAL_SEQUENCE == 1
MESSAGE_ID_PREFIX == "msg_"
DedupWindowSize == 5

NoId == "null"          \* null / undefined id
NoType == "absent"      \* frame without a `type` field
RawIds == {"A", "B"}
Chars == {"a", "b"}
EmptyText == <<>>

\* JavaScript values a frame's `seq` can hold.  Numbers are kept in half
\* units (twice = 2 * value) so that non-integers such as 1.5 are values.
Num(n) == [kind |-> "num", twice |-> 2 * n]
Frac(t) == [kind |-> "num", twice |-> t]
NaNSeq == [kind |-> "nan", twice |-> 0]
NonNumberSeq == [kind |-> "other", twice |-> 0]

TypeofNumber(seq) == seq.kind \in {"num", "nan"}
IsInteger(seq) == seq.kind = "num" /\ seq.twice % 2 = 0
\* seq >= n, seq === n, seq > n for an integer n (comparisons with NaN are false)
SeqGeq(seq, n) == seq.kind = "num" /\ seq.twice >= 2 * n
SeqEq(seq, n) == seq.kind = "num" /\ seq.twice = 2 * n
SeqGt(seq, n) == seq.kind = "num" /\ seq.twice > 2 * n

\* Map helpers (JavaScript Map: set overwrites, delete removes)
EmptyMap == [k \in {} |-> EmptyText]
MapSet(m, key, val) == [k \in (DOMAIN m) \cup {key} |-> IF k = key THEN val ELSE m[k]]
MapDelete(m, key) == [k \in (DOMAIN m) \ {key} |-> m[k]]
MapHas(m, key) == key \in DOMAIN m

Event(ev, id, text, status) == [ev |-> ev, id |-> id, text |-> text, status |-> status]
Emit(s, e) == [s EXCEPT !.out = Append(@, e)]

Frame(type, id, seq, v, text, from, innerType, hasVSeq) ==
  [type |-> type, id |-> id, seq |-> seq, v |-> v, text |-> text,
   from |-> from, innerType |-> innerType, hasVSeq |-> hasVSeq]

MsgTexts == {EmptyText, <<"a">>, <<"a", "b">>}
MessageFrames == {Frame("message", NoId, NonNumberSeq, EmptyText, t, "-", NoType, FALSE) : t \in MsgTexts}
StreamStartFrames == {Frame("stream_start", i, NonNumberSeq, EmptyText, EmptyText, "-", NoType, FALSE) : i \in RawIds \cup {NoId}}
StreamEndFrames == {Frame("stream_end", i, NonNumberSeq, EmptyText, EmptyText, "-", NoType, FALSE) : i \in RawIds \cup {NoId}}
TypingFrames == {Frame("typing_start", NoId, NonNumberSeq, EmptyText, EmptyText, f, NoType, FALSE) : f \in {"ai-assistant", "agent"}}
UnknownFrames == {Frame("other", NoId, NonNumberSeq, EmptyText, EmptyText, "-", NoType, FALSE),
                  Frame(NoType, NoId, NonNumberSeq, EmptyText, EmptyText, "-", "text", FALSE)}
ValidSeqs == {Num(n) : n \in 1..MaxSeq} \cup {Frac(3)}
InvalidSeqs == {Num(0), Num(0 - 1), Frac(1), NaNSeq, NonNumberSeq}
DeltaFrames ==
  {Frame(NoType, i, q, <<c>>, EmptyText, "-", NoType, TRUE) : i \in {NoId, "A"}, q \in ValidSeqs, c \in Chars}
  \cup {Frame(NoType, i, q, <<"a">>, EmptyText, "-", NoType, TRUE) : i \in {NoId, "A"}, q \in InvalidSeqs}

(***************************************************************************)
(* MessageProcessor: methods                                               *)
(***************************************************************************)
_resetStreamState(s, streamId) ==
  [s EXCEPT !.activeStreamId = streamId,
            !.pendingDeltas = EmptyMap,
            !.nextExpectedSeq = STREAM_INITIAL_SEQUENCE,
            !.streamMessageEmitted = FALSE]

_extractMessageType(raw) ==
  IF raw.hasVSeq /\ raw.type = NoType THEN "delta"
  ELSE IF raw.type # NoType THEN raw.type
  ELSE IF raw.innerType # NoType THEN raw.innerType
  ELSE "unknown"

_getMessageIdFromRaw(raw) ==
  IF raw.id # NoId THEN MESSAGE_ID_PREFIX \o raw.id ELSE NoId

\* Variant of _stopTyping that leaves the thinking indicator alone.
_stopTyping_typingOnly(s) ==
  LET s1 == [s EXCEPT !.typingTimer = "none"]
  IN IF s1.isTypingActive
     THEN Emit([s1 EXCEPT !.isTypingActive = FALSE], Event("typing:stop", NoId, EmptyText, "-"))
     ELSE s1

_stopTyping(s) ==
  LET s1 == [s EXCEPT !.typingTimer = "none"]
      s2 == IF s1.isTypingActive
            THEN Emit([s1 EXCEPT !.isTypingActive = FALSE], Event("typing:stop", NoId, EmptyText, "-"))
            ELSE s1
  IN IF s2.isThinkingActive
     THEN Emit([s2 EXCEPT !.isThinkingActive = FALSE], Event("thinking:stop", NoId, EmptyText, "-"))
     ELSE s2

\* The loop runs synchronously up to its first await: it emits the head of
\* the queue and suspends on the inter-message delay only when more is queued.
_processQueue(s) ==
  IF s.isProcessing \/ s.queue = <<>> THEN s
  ELSE LET m == Head(s.queue)
           s1 == Emit([s EXCEPT !.queue = Tail(@)], Event("message:processed", m.id, m.text, m.status))
       IN [s1 EXCEPT !.isProcessing = (s1.queue # <<>>)]

_createStreamingMessage(id) == [id |-> id, text |-> EmptyText, status |-> "streaming"]

\* Variant of _isDuplicateIncomingText that never reports a duplicate.
_isDuplicateIncomingText_never(s, text) == FALSE

_isDuplicateIncomingText(s, text) ==
  IF text = EmptyText THEN FALSE
  ELSE \E i \in 1..Len(s.recentIncomingTexts) : s.recentIncomingTexts[i] = text

\* Variant of _rememberIncomingText that drops the newest entries beyond five.
_rememberIncomingText_dropNewest(s, text) ==
  IF text = EmptyText THEN s
  ELSE LET l == Append(s.recentIncomingTexts, text)
       IN [s EXCEPT !.recentIncomingTexts =
             IF Len(l) > DedupWindowSize
             THEN SubSeq(l, 1, DedupWindowSize)
             ELSE l]

_rememberIncomingText(s, text) ==
  IF text = EmptyText THEN s
  ELSE LET l == Append(s.recentIncomingTexts, text)
       IN [s EXCEPT !.recentIncomingTexts =
             IF Len(l) > DedupWindowSize
             THEN SubSeq(l, Len(l) - DedupWindowSize + 1, Len(l))
             ELSE l]

_normalizeMessage(s, raw) ==
  [id |-> IF raw.id # NoId THEN raw.id ELSE "gen" \o ToString(s.nGen),
   text |-> raw.text, status |-> "delivered"]

_processUserMessage(s, raw) ==
  LET message == _normalizeMessage(s, raw)
      s0 == IF raw.id = NoId THEN [s EXCEPT !.nGen = @ + 1] ELSE s
      s1 == IF s0.isTypingActive \/ s0.isThinkingActive THEN _stopTyping(s0) ELSE s0
  IN IF _isDuplicateIncomingText(s1, message.text)
     THEN s1
     ELSE _processQueue([s1 EXCEPT !.queue = Append(@, message)])

_processStreamStart(s, raw) ==
  LET messageId == _getMessageIdFromRaw(raw)
  IN IF messageId = NoId
     THEN Emit(s, Event("error", NoId, EmptyText, "stream_start received without id"))
     ELSE LET s1 == _resetStreamState(s, messageId)
          IN [s1 EXCEPT !.streams = MapSet(@, messageId, EmptyText)]

_isValidSequenceNumber(seq) ==
  TypeofNumber(seq) /\ SeqGeq(seq, STREAM_INITIAL_SEQUENCE)

_isFirstDelta(s, seq) ==
  s.nextExpectedSeq = STREAM_INITIAL_SEQUENCE /\ SeqGeq(seq, STREAM_INITIAL_SEQUENCE)

_initializeSyntheticStream(s, raw) ==
  LET messageId == _getMessageIdFromRaw(raw)
      s1 == [_resetStreamState(s, messageId) EXCEPT !.streamMessageEmitted = TRUE]
      s2 == [s1 EXCEPT !.streams = MapSet(@, messageId, EmptyText)]
  IN _processQueue([s2 EXCEPT !.queue = Append(@, _createStreamingMessage(messageId))])

_emitDeferredStreamMessage(s) ==
  LET message == _createStreamingMessage(s.activeStreamId)
      s1 == [s EXCEPT !.streamMessageEmitted = TRUE]
  IN _processQueue([s1 EXCEPT !.queue = Append(@, message)])

_handleFirstDelta(s) ==
  LET s1 == IF s.isTypingActive \/ s.isThinkingActive THEN _stopTyping(s) ELSE s
  IN IF ~s1.streamMessageEmitted THEN _emitDeferredStreamMessage(s1) ELSE s1

\* Variant of _appendStreamContent that merges the chunk in front of the text.
_appendStreamContent_prepend(s, streamId, content) ==
  IF ~MapHas(s.streams, streamId) THEN s
  ELSE LET mergedText == content \o s.streams[streamId]
       IN Emit([s EXCEPT !.streams = MapSet(@, streamId, mergedText)],
               Event("message:updated", streamId, mergedText, "streaming"))

_appendStreamContent(s, streamId, content) ==
  IF ~MapHas(s.streams, streamId) THEN s
  ELSE LET mergedText == s.streams[streamId] \o content
       IN Emit([s EXCEPT !.streams = MapSet(@, streamId, mergedText)],
               Event("message:updated", streamId, mergedText, "streaming"))

RECURSIVE _applyPendingDeltas(_, _)
_applyPendingDeltas(s, streamId) ==
  IF MapHas(s.pendingDeltas, 2 * s.nextExpectedSeq)
  THEN LET content == s.pendingDeltas[2 * s.nextExpectedSeq]
           s1 == [s EXCEPT !.pendingDeltas = MapDelete(@, 2 * s.nextExpectedSeq)]
           s2 == _appendStreamContent(s1, streamId, content)
       IN _applyPendingDeltas([s2 EXCEPT !.nextExpectedSeq = @ + 1], streamId)
  ELSE s

\* Variant of _processDeltaSequence without the "ignore seq < nextExpectedSeq"
\* case: a delta that is not ahead of the stream is appended.
_processDeltaSequence_reapply(s, seq, content) ==
  LET streamId == s.activeStreamId
  IN IF SeqGt(seq, s.nextExpectedSeq)
     THEN [s EXCEPT !.pendingDeltas = MapSet(@, seq.twice, content)]
     ELSE LET s1 == _appendStreamContent(s, streamId, content)
          IN IF SeqEq(seq, s.nextExpectedSeq)
             THEN _applyPendingDeltas([s1 EXCEPT !.nextExpectedSeq = @ + 1], streamId)
             ELSE s1

_processDeltaSequence(s, seq, content) ==
  LET streamId == s.activeStreamId
  IN IF SeqEq(seq, s.nextExpectedSeq)
     THEN LET s1 == _appendStreamContent(s, streamId, content)
          IN _applyPendingDeltas([s1 EXCEPT !.nextExpectedSeq = @ + 1], streamId)
     ELSE IF SeqGt(seq, s.nextExpectedSeq)
     THEN [s EXCEPT !.pendingDeltas = MapSet(@, seq.twice, content)]
     ELSE s

_processDelta(s, raw) ==
  IF ~_isValidSequenceNumber(raw.seq) THEN s
  ELSE LET s1 == IF s.activeStreamId = NoId THEN _initializeSyntheticStream(s, raw) ELSE s
           s2 == IF _isFirstDelta(s1, raw.seq) THEN _handleFirstDelta(s1) ELSE s1
       IN _processDeltaSequence(s2, raw.seq, raw.v)

\* Variant of _cleanupStream that deletes the record but leaves the stream active.
_cleanupStream_keepActive(s, messageId) ==
  [s EXCEPT !.streams = MapDelete(@, messageId)]

_cleanupStream(s, messageId) ==
  LET s1 == [s EXCEPT !.streams = MapDelete(@, messageId)]
  IN IF s1.activeStreamId = messageId THEN _resetStreamState(s1, NoId) ELSE s1

_processStreamEnd(s, raw) ==
  LET messageId == _getMessageIdFromRaw(raw)
  IN IF messageId = NoId
     THEN Emit(s, Event("error", NoId, EmptyText, "stream_end received without id"))
     ELSE LET s1 == IF s.isTypingActive \/ s.isThinkingActive THEN _stopTyping(s) ELSE s
              finalText == IF MapHas(s1.streams, messageId) THEN s1.streams[messageId] ELSE EmptyText
              s2 == Emit(s1, Event("message:updated", messageId, finalText, "delivered"))
          IN _rememberIncomingText(_cleanupStream(s2, messageId), finalText)

_handleTypingIndicator(s, raw) ==
  IF ~s.enableTypingIndicator THEN s
  ELSE IF s.activeStreamId # NoId /\ s.nextExpectedSeq > STREAM_INITIAL_SEQUENCE THEN s
  ELSE LET s1 == IF raw.from = "ai-assistant"
                 THEN Emit([s EXCEPT !.isThinkingActive = TRUE], Event("thinking:start", NoId, EmptyText, "-"))
                 ELSE Emit([s EXCEPT !.isTypingActive = TRUE], Event("typing:start", NoId, EmptyText, "-"))
       IN [s1 EXCEPT !.typingTimer = "timeout"]

process(s, raw) ==
  LET messageType == _extractMessageType(raw)
  IN CASE messageType = "message" -> _processUserMessage(s, raw)
       [] messageType = "stream_start" -> _processStreamStart(s, raw)
       [] messageType = "delta" -> _processDelta(s, raw)
       [] messageType = "stream_end" -> _processStreamEnd(s, raw)
       [] messageType = "typing_start" -> _handleTypingIndicator(s, raw)
       [] OTHER -> Emit(s, Event("message:unknown", NoId, EmptyText, "-"))

startTypingOnMessageSent(s) ==
  IF ~s.enableTypingIndicator THEN s
  ELSE [s EXCEPT !.typingTimer = "delay"]

\* Callback of the timer armed by _handleTypingIndicator ("timeout") or by
\* startTypingOnMessageSent ("delay").
typingTimerCallback(s) ==
  IF s.typingTimer = "timeout" THEN _stopTyping(s)
  ELSE LET s1 == [s EXCEPT !.typingTimer = "none"]
       IN IF ~s1.isTypingActive /\ ~s1.isThinkingActive
          THEN Emit([s1 EXCEPT !.isTypingActive = TRUE], Event("typing:start", NoId, EmptyText, "-"))
          ELSE s1

MessageProcessor(enable) ==
  [queue |-> <<>>, isProcessing |-> FALSE, typingTimer |-> "none",
   isTypingActive |-> FALSE, isThinkingActive |-> FALSE,
   streams |-> EmptyMap, recentIncomingTexts |-> <<>>,
   activeStreamId |-> NoId, pendingDeltas |-> EmptyMap,
   nextExpectedSeq |-> STREAM_INITIAL_SEQUENCE, streamMessageEmitted |-> FALSE,
   enableTypingIndicator |-> enable, nGen |-> 0, out |-> <<>>]

(***************************************************************************)
(* History of the stream opened last: how it was opened and, per seq, the  *)
(* chunk of the first valid delta delivered to it while it was active.     *)
(***************************************************************************)
NewHist(opened, id) ==
  [opened |-> opened, id |-> id, recv |-> EmptyMap,
   repeated |-> FALSE,    \* some seq was delivered more than once
   buffered |-> FALSE,    \* some delta arrived ahead of nextExpectedSeq
   lastDup |-> FALSE,     \* the last frame was a delta repeating a delivered seq
   clean |-> FALSE,       \* opened on an idle processor and fed in-order deltas only
   events |-> <<>>]       \* while clean: every event emitted since the stream was opened
NoHist == NewHist("none", NoId)

\* the text of the last message:updated event of each id, after the events
\* of one handler
RECURSIVE LastTexts(_, _)
LastTexts(last, out) ==
  IF out = <<>> THEN last
  ELSE LET e == Head(out)
       IN LastTexts(IF e.ev = "message:updated" /\ e.id # NoId THEN MapSet(last, e.id, e.text) ELSE last,
                    Tail(out))

CountEv(out, ev) == Cardinality({i \in 1..Len(out) : out[i].ev = ev})

Idle(s) ==
  /\ s.activeStreamId = NoId /\ s.streams = EmptyMap /\ s.queue = <<>> /\ ~s.isProcessing
  /\ ~s.isTypingActive /\ ~s.isThinkingActive /\ s.typingTimer = "none"

Unclean(h) == [h EXCEPT !.clean = FALSE, !.events = <<>>]

HistAfter(s, raw, s2) ==
  LET t == _extractMessageType(raw)
      h0 == IF s.activeStreamId = NoId THEN NoHist ELSE [mpHist EXCEPT !.lastDup = FALSE]
      opens == \/ t = "stream_start" /\ raw.id # NoId
               \/ t = "delta" /\ _isValidSequenceNumber(raw.seq) /\ s.activeStreamId = NoId
      h1 == IF t = "stream_start" /\ raw.id # NoId
            THEN [NewHist("start", s2.activeStreamId) EXCEPT !.clean = Idle(s)]
            ELSE IF t = "delta" /\ _isValidSequenceNumber(raw.seq) /\ s.activeStreamId = NoId
            THEN [NewHist("synthetic", s2.activeStreamId) EXCEPT !.clean = Idle(s)]
            ELSE h0
      h2 == IF t = "delta" /\ _isValidSequenceNumber(raw.seq) /\ SeqGt(raw.seq, s.nextExpectedSeq)
            THEN [h1 EXCEPT !.buffered = TRUE]
            ELSE h1
      inOrder == \/ t = "stream_start" /\ opens
                 \/ t = "delta" /\ SeqEq(raw.seq, Cardinality(DOMAIN h2.recv) + 1)
                 \/ t = "stream_end" /\ h2.id # NoId /\ h2.id = _getMessageIdFromRaw(raw)
      h3 == IF h2.clean /\ inOrder THEN [h2 EXCEPT !.events = @ \o s2.out] ELSE Unclean(h2)
  IN IF t = "delta" /\ _isValidSequenceNumber(raw.seq)
     THEN IF MapHas(h3.recv, raw.seq.twice)
          THEN [h3 EXCEPT !.repeated = TRUE, !.lastDup = TRUE]
          ELSE [h3 EXCEPT !.recv = MapSet(@, raw.seq.twice, raw.v)]
     ELSE h3

\* h followed by the non-empty texts of the final updates (status
\* 'delivered') among the events of one handler, cut to its last five
RECURSIVE FinalTexts(_, _)
FinalTexts(h, out) ==
  IF out = <<>> THEN h
  ELSE LET e == Head(out)
           l == IF e.ev = "message:updated" /\ e.status = "delivered" /\ e.text # EmptyText
                THEN Append(h, e.text) ELSE h
       IN FinalTexts(IF Len(l) > 5 THEN Tail(l) ELSE l, Tail(out))

Summary(raw, out) ==
  [isMessage |-> _extractMessageType(raw) = "message", text |-> raw.text,
   processed |-> CountEv(out, "message:processed")]

(***************************************************************************)
(* MessageProcessor: actions                                               *)
(***************************************************************************)
ProcessFrame(raw) ==
  /\ nFrames < MaxFrames
  /\ LET s2 == process([mp EXCEPT !.out = <<>>], raw)
     IN /\ mp' = s2
        /\ mpHist' = HistAfter(mp, raw, s2)
  /\ mpIn' = raw
  /\ mpLog' = LET l == Append(mpLog, Summary(raw, mp'.out))
               IN IF Len(l) > 2 THEN Tail(l) ELSE l
  /\ nFrames' = nFrames + 1
  /\ mpFinal' = FinalTexts(mpFinal, mp'.out)

Process(raw) == ProcessFrame(raw) /\ UNCHANGED <<wsVars, smVars, svcVars>>

RecvMessage == \E raw \in MessageFrames : Process(raw)
RecvStreamStart == \E raw \in StreamStartFrames : Process(raw)
RecvDelta == \E raw \in DeltaFrames : Process(raw)
RecvStreamEnd == \E raw \in StreamEndFrames : Process(raw)
RecvTypingStart == \E raw \in TypingFrames : Process(raw)
RecvUnknown == \E raw \in UnknownFrames : Process(raw)

NoFrame == Frame("none", NoId, NonNumberSeq, EmptyText, EmptyText, "-", NoType, FALSE)

MessageSent ==
  /\ mp.enableTypingIndicator
  /\ mp.typingTimer # "delay"
  /\ mp' = startTypingOnMessageSent([mp EXCEPT !.out = <<>>])
  /\ mpIn' = NoFrame
  /\ mpHist' = Unclean(mpHist)
  /\ UNCHANGED <<mpLog, nFrames, mpFinal, wsVars, smVars, svcVars>>

TypingTimerFires ==
  /\ mp.typingTimer # "none"
  /\ mp' = typingTimerCallback([mp EXCEPT !.out = <<>>])
  /\ mpIn' = NoFrame
  /\ mpHist' = Unclean(mpHist)
  /\ UNCHANGED <<mpLog, nFrames, mpFinal, wsVars, smVars, svcVars>>

(***************************************************************************)
(* RetryStrategy                                                           *)
(***************************************************************************)
\* Math.random() in tenths: 0.0, 0.5, 0.9
RandomTenths == {0, 5, 9}

RECURSIVE Pow(_, _)
Pow(b, n) == IF n = 0 THEN 1 ELSE b * Pow(b, n - 1)
MathMin(a, b) == IF a <= b THEN a ELSE b

\* config.factor is the fraction factor / factorDen (2 by default)
RetryStrategy(jitter) ==
  [present |-> TRUE,
   config |-> [baseDelay |-> 1000, maxDelay |-> 30000,
               factor |-> 2, factorDen |-> 1, jitter |-> jitter, maxJitter |-> 1000],
   attempts |-> 0]
NoRetryStrategy == [RetryStrategy(FALSE) EXCEPT !.present = FALSE]

\* delay and the result are in units of 1/den and 1/(10 * den) milliseconds
_addJitter(r, delay, den, rnd) ==
  LET jitterAmount == rnd * MathMin(delay, r.config.maxJitter * den)
  IN 10 * delay + jitterAmount

\* Variant of getDelay whose delay grows linearly with the attempt number.
getDelay_linear(r, attemptNumber, rnd) ==
  LET den == 1
      exponentialDelay == r.config.baseDelay * (attemptNumber + 1)
      delay == MathMin(exponentialDelay, r.config.maxDelay * den)
  IN IF r.config.jitter THEN _addJitter(r, delay, den, rnd) \div (10 * den) ELSE delay \div den

\* exponentialDelay and delay are in units of 1/den milliseconds, den being
\* the denominator of factor^attemptNumber; the result is Math.floor(delay)
getDelay(r, attemptNumber, rnd) ==
  LET den == Pow(r.config.factorDen, attemptNumber)
      exponentialDelay == r.config.baseDelay * Pow(r.config.factor, attemptNumber)
      delay == MathMin(exponentialDelay, r.config.maxDelay * den)
  IN IF r.config.jitter THEN _addJitter(r, delay, den, rnd) \div (10 * den) ELSE delay \div den

\* next(): the delay for the current counter, and the strategy with the counter incremented
next(r, rnd) == [delay |-> getDelay(r, r.attempts, rnd), r |-> [r EXCEPT !.attempts = @ + 1]]
reset(r) == [r EXCEPT !.attempts = 0]

(***************************************************************************)
(* RetryStrategy on its own: rs.r is the strategy, rs.op the last call,    *)
(* the counter it found and the delay it returned.                         *)
(***************************************************************************)
MaxAttempts == 4

NoCall == [name |-> "new", n |-> 0, delay |-> 0]

RetryConfigs ==
  {[RetryStrategy(j).config EXCEPT !.baseDelay = b, !.maxDelay = m, !.factor = f, !.factorDen = 2] :
     j \in BOOLEAN, b \in {1000, 3}, m \in {30000, 5}, f \in 1..4}

RetryGetDelay ==
  /\ \E n \in 0..MaxAttempts, rnd \in RandomTenths :
       rs' = [rs EXCEPT !.op = [name |-> "getDelay", n |-> n, delay |-> getDelay(rs.r, n, rnd)]]
  /\ UNCHANGED <<mpVars, wsVars, smVars, state, svc, hm, mpUpd>>

RetryNext ==
  /\ rs.r.attempts < MaxAttempts
  /\ \E rnd \in RandomTenths :
       rs' = [r |-> next(rs.r, rnd).r,
              op |-> [name |-> "next", n |-> rs.r.attempts, delay |-> next(rs.r, rnd).delay]]
  /\ UNCHANGED <<mpVars, wsVars, smVars, state, svc, hm, mpUpd>>

RetryReset ==
  /\ rs' = [r |-> reset(rs.r), op |-> [name |-> "reset", n |-> rs.r.attempts, delay |-> 0]]
  /\ UNCHANGED <<mpVars, wsVars, smVars, state, svc, hm, mpUpd>>

NextRetry ==
  \/ RetryGetDelay
  \/ RetryNext
  \/ RetryReset

(***************************************************************************)
(* WebSocketManager                                                        *)
(***************************************************************************)
MaxReconnectAttempts == 3
MaxStale == 1
MaxPendingSends == 1

NoSocket == "null"

WebSocketManager(autoReconnect, retryStrategy, urlValid) ==
  [urlValid |-> urlValid,        \* new WebSocket(config.socketUrl) does not throw
   socket |-> NoSocket,          \* readyState of this.socket: CONNECTING, OPEN, CLOSED
   handshaken |-> FALSE,         \* the server has sent ready_for_message on this.socket
   stale |-> 0,                  \* sockets dropped by close() whose close event is still to come
   status |-> "disconnected",
   reconnectAttempts |-> 0,
   reconnectTimer |-> FALSE, reconnectDelay |-> 0,
   pingTimer |-> FALSE,
   isRegistered |-> FALSE,
   registrationData |-> NoId,
   connectArg |-> NoId,        \* registrationData captured by the onopen handler
   autoReconnect |-> autoReconnect,   \* config.autoReconnect as spread over the defaults
   maxReconnectAttempts |-> MaxReconnectAttempts,
   reconnectInterval |-> 3000,
   retryStrategy |-> retryStrategy,
   connectPromise |-> "none",    \* promise of the last connect() that created a socket
   onceConnected |-> FALSE,      \* its resolve is registered with once(CONNECTED)
   pendingSends |-> <<>>,        \* send() promises waiting on a connecting socket
   settled |-> <<>>,             \* send() promises settled by the last handler
   wire |-> <<>>,                \* frames written to the socket by the last handler
   out |-> <<>>]

StatusChanged(w) == Emit(w, Event("connection:status:changed", NoId, EmptyText, w.status))

\* A waiting send() carries the socket it listens on: 0 is this.socket, k >= 1
\* the k-th oldest of the dropped sockets whose close event is still to come.

\* socket.close() followed by this.socket = null: a socket that was not yet
\* closed delivers its close event later.
DropSocket(w) ==
  IF w.socket = NoSocket THEN w
  ELSE [w EXCEPT !.socket = NoSocket, !.handshaken = FALSE,
                 !.stale = IF w.socket \in {"CONNECTING", "OPEN"} THEN @ + 1 ELSE @,
                 !.pendingSends = [i \in DOMAIN @ |->
                                     IF @[i].sock = 0 THEN [@[i] EXCEPT !.sock = w.stale + 1] ELSE @[i]]]

_stopPingInterval(w) == [w EXCEPT !.pingTimer = FALSE]
_startPingInterval(w) == [_stopPingInterval(w) EXCEPT !.pingTimer = TRUE]
\* Variant of _stopReconnectTimer that leaves the timer armed.
_stopReconnectTimer_keep(w) == w

_stopReconnectTimer(w) == [w EXCEPT !.reconnectTimer = FALSE, !.reconnectDelay = 0]

connect(w, registrationData) ==
  IF w.status \in {"connected", "connecting"} THEN w
  ELSE LET w1 == DropSocket(w)
           w2 == StatusChanged([w1 EXCEPT !.status = "connecting"])
       IN IF ~w.urlValid
          THEN Emit(StatusChanged([w2 EXCEPT !.status = "error", !.connectPromise = "rejected",
                                             !.onceConnected = FALSE]),
                    Event("error", NoId, EmptyText, "-"))
          ELSE [w2 EXCEPT !.socket = "CONNECTING", !.connectArg = registrationData,
                          !.connectPromise = "pending", !.onceConnected = FALSE]

\* A send() promise once settled: how it settled, the branch of send() that
\* made it, the frames written for it and the message:sent events emitted.
Settled(outcome, branch, n) == [outcome |-> outcome, branch |-> branch, written |-> n, sent |-> n]
Settle(w, p) == [w EXCEPT !.settled = Append(@, p)]
MessageSentEvent(type) == Event("message:sent", NoId, EmptyText, type)

\* Variant of send that resolves the promise of a send with no socket.
send_resolveUnsent(w, type, throws) ==
  IF w.socket = "OPEN"
  THEN IF throws
       THEN [p |-> "rejected",
             w |-> Settle(Emit(w, Event("error", NoId, EmptyText, "-")), Settled("rejected", "open", 0))]
       ELSE [p |-> "resolved",
             w |-> Settle(Emit([w EXCEPT !.wire = Append(@, type)], MessageSentEvent(type)),
                          Settled("resolved", "open", 1))]
  ELSE IF w.socket = "CONNECTING"
  THEN [p |-> "pending", w |-> [w EXCEPT !.pendingSends = Append(@, [sock |-> 0, type |-> type])]]
  ELSE [p |-> "resolved", w |-> Settle(w, Settled("resolved", "none", 0))]

\* throws: socket.send (or JSON.stringify) raises an exception
send(w, type, throws) ==
  IF w.socket = "OPEN"
  THEN IF throws
       THEN [p |-> "rejected",
             w |-> Settle(Emit(w, Event("error", NoId, EmptyText, "-")), Settled("rejected", "open", 0))]
       ELSE [p |-> "resolved",
             w |-> Settle(Emit([w EXCEPT !.wire = Append(@, type)], MessageSentEvent(type)),
                          Settled("resolved", "open", 1))]
  ELSE IF w.socket = "CONNECTING"
  THEN [p |-> "pending", w |-> [w EXCEPT !.pendingSends = Append(@, [sock |-> 0, type |-> type])]]
  ELSE [p |-> "rejected", w |-> Settle(w, Settled("rejected", "none", 0))]

PendingOn(w, sock) == SelectSeq(w.pendingSends, LAMBDA p : p.sock = sock)
PendingOff(w, sock) == SelectSeq(w.pendingSends, LAMBDA p : p.sock # sock)

\* The 'open' listeners of the sends waiting on the socket that opened.
onOpen(w, throws) ==
  LET cur == PendingOn(w, 0)
  IN IF throws
     THEN [w EXCEPT !.pendingSends = PendingOff(w, 0),
                    !.out = @ \o [i \in DOMAIN cur |-> Event("error", NoId, EmptyText, "-")],
                    !.settled = @ \o [i \in DOMAIN cur |-> Settled("rejected", "connecting", 0)]]
     ELSE [w EXCEPT !.pendingSends = PendingOff(w, 0),
                    !.wire = @ \o [i \in DOMAIN cur |-> cur[i].type],
                    !.out = @ \o [i \in DOMAIN cur |-> MessageSentEvent(cur[i].type)],
                    !.settled = @ \o [i \in DOMAIN cur |-> Settled("resolved", "connecting", 1)]]

\* The 'error' listeners of the sends waiting on the socket that failed.
\* cleanup() removes listeners from this.socket, which is another object (or
\* null) once the socket was dropped; the promise is settled all the same.
onError(w, sock) ==
  LET cur == PendingOn(w, sock)
  IN [w EXCEPT !.pendingSends = PendingOff(w, sock),
               !.out = @ \o [i \in DOMAIN cur |-> Event("error", NoId, EmptyText, "-")],
               !.settled = @ \o [i \in DOMAIN cur |-> Settled("rejected", "connecting", 0)]]

\* The 'close' listeners of the sends still waiting on the socket that closed.
onClose(w, sock) ==
  LET cur == PendingOn(w, sock)
  IN [w EXCEPT !.pendingSends = PendingOff(w, sock),
               !.settled = @ \o [i \in DOMAIN cur |-> Settled("rejected", "connecting", 0)]]

\* socket.onerror
socketOnError(w) == Emit(w, Event("error", NoId, EmptyText, "-"))

\* register() as the open handler calls it.  A failed send is reported with
\* an error event and the rejection is rethrown to a promise nobody holds.
register(w, data, throws) ==
  IF w.isRegistered /\ w.socket = "OPEN" THEN w
  ELSE LET r == send([w EXCEPT !.registrationData = data], "register", throws)
       IN IF r.p = "resolved"
          THEN Emit([r.w EXCEPT !.isRegistered = TRUE], Event("ws:registered", NoId, EmptyText, "-"))
          ELSE IF r.p = "rejected"
          THEN Emit(r.w, Event("error", NoId, EmptyText, "Registration failed"))
          ELSE r.w

\* socket.onopen as connect() installs it
socketOnOpen(w, registrationData, throws) ==
  [register(w, registrationData, throws) EXCEPT !.onceConnected = TRUE]

\* emit(CONNECTED): the once listener settles the connect() promise
EmitConnected(w) ==
  LET w1 == Emit(w, Event("connected", NoId, EmptyText, "-"))
  IN IF w.onceConnected
     THEN [w1 EXCEPT !.onceConnected = FALSE,
                     !.connectPromise = IF @ = "pending" THEN "resolved" ELSE @]
     ELSE w1

\* Variant of _handleReadyForMessage that leaves reconnectAttempts as it was.
_handleReadyForMessage_keepAttempts(w) ==
  LET w1 == [w EXCEPT !.status = "connected",
                      !.retryStrategy = IF @.present THEN reset(@) ELSE @]
      w2 == EmitConnected(StatusChanged(w1))
  IN _startPingInterval(w2)

_handleReadyForMessage(w) ==
  LET w1 == [w EXCEPT !.status = "connected", !.reconnectAttempts = 0,
                      !.retryStrategy = IF @.present THEN reset(@) ELSE @]
      w2 == EmitConnected(StatusChanged(w1))
  IN _startPingInterval(w2)

\* Variant of disconnect that leaves config.autoReconnect as it was.
disconnect_keepAutoReconnect(w, permanent) ==
  LET w2 == DropSocket(_stopReconnectTimer(_stopPingInterval(w)))
      w3 == StatusChanged([w2 EXCEPT !.status = "disconnected", !.isRegistered = FALSE])
  IN IF permanent THEN Emit(w3, Event("disconnected", NoId, EmptyText, "-")) ELSE w3

disconnect(w, permanent) ==
  LET w1 == IF permanent THEN [w EXCEPT !.autoReconnect = FALSE] ELSE w
      w2 == DropSocket(_stopReconnectTimer(_stopPingInterval(w1)))
      w3 == StatusChanged([w2 EXCEPT !.status = "disconnected", !.isRegistered = FALSE])
  IN IF permanent THEN Emit(w3, Event("disconnected", NoId, EmptyText, "-")) ELSE w3

_scheduleReconnect(w, rnd) ==
  LET w1 == StatusChanged([w EXCEPT !.status = "reconnecting"])
      delay == IF w1.retryStrategy.present THEN next(w1.retryStrategy, rnd).delay ELSE w1.reconnectInterval
  IN [w1 EXCEPT !.retryStrategy = IF @.present THEN next(@, rnd).r ELSE @,
                !.reconnectTimer = TRUE, !.reconnectDelay = delay]

_handleDisconnect(w, rnd) ==
  LET wasConnected == w.status = "connected"
      w1 == _stopPingInterval([w EXCEPT !.status = "disconnected", !.isRegistered = FALSE])
      w2 == Emit(StatusChanged(w1), Event("disconnected", NoId, EmptyText, "-"))
  IN IF wasConnected /\ w2.autoReconnect /\ w2.reconnectAttempts < w2.maxReconnectAttempts
     THEN _scheduleReconnect(w2, rnd)
     ELSE w2

\* Body of the setTimeout callback armed by _scheduleReconnect.
reconnectTimerCallback(w) ==
  LET w1 == [w EXCEPT !.reconnectTimer = FALSE, !.reconnectDelay = 0, !.reconnectAttempts = @ + 1]
      w2 == Emit(w1, Event("reconnecting", NoId, EmptyText, "-"))
  IN connect(w2, w2.registrationData)

\* Body of the setInterval callback armed by _startPingInterval.
pingTimerCallback(w) ==
  IF w.socket = "OPEN" THEN [w EXCEPT !.wire = Append(@, "ping")] ELSE w

(***************************************************************************)
(* History of a loss of connection: lost = the transport closed while      *)
(* connected and neither the application nor a stale close event has       *)
(* intervened since; sched = the reconnect delays scheduled since then;    *)
(* failed = reconnect attempts whose socket closed before the handshake.   *)
(***************************************************************************)
NoLoss == [lost |-> FALSE, sched |-> <<>>, failed |-> 0, attempting |-> FALSE,
           readyAt |-> 0,    \* reconnectAttempts just before the last ready_for_message
           permanent |-> FALSE,   \* disconnect(true) has been called
           afterDisconnect |-> FALSE]   \* disconnect() has returned and connect() was not called since
Fresh == [NoLoss EXCEPT !.permanent = wsHist.permanent, !.afterDisconnect = wsHist.afterDisconnect]
Scheduled(h, w, w2) ==
  IF w2.reconnectTimer /\ ~w.reconnectTimer THEN [h EXCEPT !.sched = Append(@, w2.reconnectDelay)] ELSE h

(***************************************************************************)
(* WebSocketManager: actions                                               *)
(***************************************************************************)
WsStart(w) == [w EXCEPT !.out = <<>>, !.wire = <<>>, !.settled = <<>>]

Connect ==
  /\ ws.status \notin {"connected", "connecting"}
  /\ (ws.socket \in {"CONNECTING", "OPEN"}) => ws.stale < MaxStale
  /\ ws' = connect(WsStart(ws), "data")
  /\ wsHist' = [Fresh EXCEPT !.afterDisconnect = FALSE]
  /\ UNCHANGED <<mpVars, smVars, svcVars>>

Disconnect ==
  /\ (ws.socket \in {"CONNECTING", "OPEN"}) => ws.stale < MaxStale
  /\ \E permanent \in BOOLEAN :
       /\ ws' = disconnect(WsStart(ws), permanent)
       /\ wsHist' = [NoLoss EXCEPT !.permanent = wsHist.permanent \/ permanent, !.afterDisconnect = TRUE]
  /\ UNCHANGED <<mpVars, smVars, svcVars>>

\* The application calls send(message).
Send ==
  /\ Len(ws.pendingSends) < MaxPendingSends
  /\ \E throws \in BOOLEAN : ws' = send(WsStart(ws), "message", throws).w
  /\ UNCHANGED <<wsHist, mpVars, smVars, svcVars>>

\* The open event: socket.onopen, then the listeners added by send().
SocketOpen ==
  /\ ws.socket = "CONNECTING"
  /\ \E throwsRegister, throws \in BOOLEAN :
       ws' = onOpen(socketOnOpen([WsStart(ws) EXCEPT !.socket = "OPEN"], ws.connectArg, throwsRegister),
                    throws)
  /\ UNCHANGED <<wsHist, mpVars, smVars, svcVars>>

ReadyForMessage ==
  /\ ws.socket = "OPEN"
  /\ ~ws.handshaken
  /\ ws' = _handleReadyForMessage([WsStart(ws) EXCEPT !.handshaken = TRUE])
  /\ wsHist' = [Fresh EXCEPT !.readyAt = ws.reconnectAttempts]
  /\ UNCHANGED <<mpVars, smVars, svcVars>>

\* The connection is closed: when it failed the error event is fired first
\* (a socket that never opened always fails), then the close event;
\* socket.onerror and socket.onclose run before the listeners send() added.
SocketClose ==
  /\ ws.socket \in {"CONNECTING", "OPEN"}
  /\ \E rnd \in RandomTenths, failed \in BOOLEAN :
       /\ ws.socket = "CONNECTING" => failed
       /\ LET w0 == [WsStart(ws) EXCEPT !.socket = "CLOSED"]
               w1 == IF failed THEN onError(socketOnError(w0), 0) ELSE w0
           IN ws' = onClose(_handleDisconnect(w1, rnd), 0)
  /\ wsHist' =
       LET h == IF ws.status = "connected" THEN [Fresh EXCEPT !.lost = TRUE]
                ELSE IF ws.status = "connecting" /\ wsHist.attempting
                THEN [wsHist EXCEPT !.failed = @ + 1, !.attempting = FALSE]
                ELSE wsHist
       IN Scheduled(h, ws, ws')
  /\ UNCHANGED <<mpVars, smVars, svcVars>>

\* The close event of a socket dropped by close() (dropped sockets close in
\* the order they were dropped); a socket dropped while connecting fails, and
\* only such a socket has sends waiting on it.
StaleSocketClose ==
  /\ ws.stale > 0
  /\ \E rnd \in RandomTenths, failed \in BOOLEAN :
       /\ PendingOn(ws, 1) # <<>> => failed
       /\ LET w0 == WsStart(ws)
               w1 == IF failed THEN onError(socketOnError(w0), 1) ELSE w0
               w2 == onClose(_handleDisconnect(w1, rnd), 1)
           IN ws' = [w2 EXCEPT !.stale = @ - 1,
                               !.pendingSends = [i \in DOMAIN @ |->
                                  IF @[i].sock > 1 THEN [@[i] EXCEPT !.sock = @ - 1] ELSE @[i]]]
  /\ wsHist' = Scheduled(Fresh, ws, ws')
  /\ UNCHANGED <<mpVars, smVars, svcVars>>

ReconnectTimerFires ==
  /\ ws.reconnectTimer
  /\ (ws.socket \in {"CONNECTING", "OPEN"}) => ws.stale < MaxStale
  /\ ws' = reconnectTimerCallback(WsStart(ws))
  /\ wsHist' = IF ws'.status = "connecting" /\ ws'.socket = "CONNECTING"
                THEN [wsHist EXCEPT !.attempting = TRUE]
                ELSE wsHist
  /\ UNCHANGED <<mpVars, smVars, svcVars>>

PingTimerFires ==
  /\ ws.pingTimer
  /\ ws' = pingTimerCallback(WsStart(ws))
  /\ UNCHANGED <<wsHist, mpVars, smVars, svcVars>>

NextWS ==
  \/ Connect
  \/ Disconnect
  \/ Send
  \/ SocketOpen
  \/ ReadyForMessage
  \/ SocketClose
  \/ StaleSocketClose
  \/ ReconnectTimerFires
  \/ PingTimerFires

(***************************************************************************)
(* Strings: sequences of characters.  "SP" is a space, "LF" a line         *)
(* terminator.  The empty sequence stands for '', null and undefined,      *)
(* which the code never tells apart (only truthiness is tested).           *)
(***************************************************************************)
MaxMinutes == 3
MaxConv == 2

DigitChars == <<"0", "1", "2", "3", "4", "5", "6", "7", "8", "9">>
IsDigit(c) == \E i \in 1..10 : DigitChars[i] = c
IsLineTerminator(c) == c = "LF"
IsWhiteSpace(c) == c \in {"SP", "LF"}
NullStr == <<>>

\* String(n) for a non-negative integer n
RECURSIVE DecimalString(_)
DecimalString(n) ==
  IF n < 10 THEN <<DigitChars[n + 1]>>
  ELSE Append(DecimalString(n \div 10), DigitChars[(n % 10) + 1])

RECURSIVE trim(_)
trim(str) ==
  IF str = <<>> THEN str
  ELSE IF IsWhiteSpace(Head(str)) THEN trim(Tail(str))
  ELSE IF IsWhiteSpace(str[Len(str)]) THEN trim(SubSeq(str, 1, Len(str) - 1))
  ELSE str

generateSessionId(clientId, hostname, rnd, now) ==
  LET validClientId == IF clientId = NullStr \/ trim(clientId) = <<>> THEN hostname ELSE clientId
      randomId == (rnd * now) \div 10   \* Math.floor(Math.random() * Date.now()), Math.random() in tenths
  IN DecimalString(randomId) \o <<"@">> \o validClientId

(***************************************************************************)
(* StorageManager over localStorage                                        *)
(***************************************************************************)
MsPerMinute == 60 * 1000
UnlimitedQuota == 100

Message(id, status) == [kind |-> "object", id |-> id, status |-> status]
Undefined == [kind |-> "undefined", id |-> "-", status |-> "-"]
JsonNull == [kind |-> "null", id |-> "-", status |-> "-"]
NoMessage == [kind |-> "none", id |-> "-", status |-> "-"]
Messages == {Message("m1", "pending"), Undefined}

NoSession ==
  [exists |-> FALSE, id |-> NullStr, createdAt |-> 0, lastActivity |-> 0,
   lastMessageSentAt |-> 0, conversation |-> <<>>]

\* JSON.parse(JSON.stringify(value)): undefined array elements come back as null
JsonRoundTrip(session) ==
  [session EXCEPT !.conversation =
     [i \in 1..Len(@) |-> IF @[i].kind = "undefined" THEN JsonNull ELSE @[i]]]

AbsentItem == [kind |-> "absent", _timestamp |-> 0, _data |-> NoSession]
CorruptItem == [kind |-> "corrupt", _timestamp |-> 0, _data |-> NoSession]
Envelope(timestamp, data) == [kind |-> "envelope", _timestamp |-> timestamp, _data |-> data]

\* item.length: one unit per item plus one per conversation entry
ItemLength(item) == IF item.kind = "absent" THEN 0 ELSE 1 + Len(item._data.conversation)

StorageManager(sessionItem, otherItem, quota) ==
  [session |-> sessionItem,     \* item under 'weni:webchat:session'
   other |-> otherItem,         \* another item under the 'weni:webchat:' prefix
   quota |-> quota]             \* setItem throws QuotaExceededError beyond this length

get(st) ==
  IF st.session.kind = "envelope" THEN st.session._data ELSE NoSession

\* first = the key storage.key(i) yields first; the sort keeps it first on a tie
_handleQuotaExceeded(st, first) ==
  LET present == {k \in {"session", "other"} : st[k].kind # "absent"}
      toRemove == (Cardinality(present) + 3) \div 4
      oldest == IF Cardinality(present) < 2 THEN present
                ELSE IF st.session._timestamp < st.other._timestamp THEN {"session"}
                ELSE IF st.other._timestamp < st.session._timestamp THEN {"other"}
                ELSE {first}
  IN IF \E k \in present : st[k].kind = "corrupt" THEN st
     ELSE IF toRemove = 0 THEN st
     ELSE [st EXCEPT !.session = IF "session" \in oldest THEN AbsentItem ELSE @,
                     !.other = IF "other" \in oldest THEN AbsentItem ELSE @]

set(st, value, now, first) ==
  LET data == Envelope(now, JsonRoundTrip(value))
  IN IF ItemLength(data) + ItemLength(st.other) <= st.quota
     THEN [st EXCEPT !.session = data]
     ELSE _handleQuotaExceeded(st, first)

remove(st) == [st EXCEPT !.session = AbsentItem]

(***************************************************************************)
(* SessionManager                                                          *)
(***************************************************************************)
NoTimer == 0
CONTACT_TIMEOUT_MAXIMUM_TIME_REACHED == "contact:timeout:maximum_time_reached"

RawConfig(autoClearCache, cacheTimeout, contactTimeout, clientId, sessionId) ==
  [autoClearCache |-> autoClearCache, cacheTimeout |-> cacheTimeout,
   contactTimeout |-> contactTimeout, clientId |-> clientId, sessionId |-> sessionId]

SessionManager(storage, config) ==
  [storage |-> storage,
   config |-> [autoClearCache |-> config.autoClearCache # FALSE,
               cacheTimeout |-> IF config.cacheTimeout # 0 THEN config.cacheTimeout ELSE 30 * 60 * 1000,
               contactTimeout |-> IF config.contactTimeout # 0 THEN config.contactTimeout ELSE 24 * 60,
               clientId |-> config.clientId,
               sessionId |-> config.sessionId],
   session |-> NoSession,
   clearTimer |-> NoTimer,            \* deadline of the armed timer, NoTimer when null
   contactTimeoutTimer |-> NoTimer,   \* deadline of the armed timer, NoTimer when null
   contactTimers |-> <<>>,            \* deadlines of the contact-timeout setTimeout calls still pending
   ret |-> NoSession,                 \* value returned by the last call
   out |-> <<>>]

_isValidSessionIdFormat(sessionId) ==
  LET n == Len(sessionId)
      digits == IF \A i \in 1..n : IsDigit(sessionId[i]) THEN n
                ELSE (CHOOSE i \in 1..n : ~IsDigit(sessionId[i]) /\ \A j \in 1..(i - 1) : IsDigit(sessionId[j])) - 1
  IN /\ digits >= 1
     /\ n >= digits + 2
     /\ sessionId[digits + 1] = "@"
     /\ \A i \in (digits + 2)..n : ~IsLineTerminator(sessionId[i])

_getContactTimeoutMs(s) == s.config.contactTimeout * 60 * 1000

_isSessionValid(s, session, I) ==
  IF ~session.exists \/ session.id = NullStr \/ session.lastActivity = 0 THEN FALSE
  ELSE IF ~_isValidSessionIdFormat(session.id) THEN FALSE
  ELSE IF session.lastMessageSentAt = 0 THEN TRUE
  ELSE I.now - session.lastMessageSentAt < _getContactTimeoutMs(s)

_save(s, I) ==
  IF ~s.session.exists THEN s
  ELSE [s EXCEPT !.storage = set(@, s.session, I.now, I.first)]

_updateLastActivity(s, I) ==
  IF ~s.session.exists THEN s
  ELSE _save([s EXCEPT !.session.lastActivity = I.now], I)

_stopAutoClearTimer(s) == [s EXCEPT !.clearTimer = NoTimer]

_startAutoClearTimer(s, I) ==
  IF ~s.config.autoClearCache THEN s
  ELSE [_stopAutoClearTimer(s) EXCEPT !.clearTimer = I.now + s.config.cacheTimeout]

\* clearTimeout(handle): the pending timeout with that handle, if any, is dropped
clearTimeout(timers, handle) ==
  IF \E i \in DOMAIN timers : timers[i] = handle
  THEN LET i == CHOOSE k \in DOMAIN timers : timers[k] = handle /\ \A j \in 1..(k - 1) : timers[j] # handle
       IN SubSeq(timers, 1, i - 1) \o SubSeq(timers, i + 1, Len(timers))
  ELSE timers

_clearContactTimeoutTimer(s) ==
  IF s.contactTimeoutTimer # NoTimer
  THEN [s EXCEPT !.contactTimers = clearTimeout(@, s.contactTimeoutTimer), !.contactTimeoutTimer = NoTimer]
  ELSE s

\* Variant of _scheduleContactTimeoutCheck that does not cancel the timer
\* armed before.
_scheduleContactTimeoutCheck_keep(s, I) ==
  LET s1 == s
      timeoutMs == _getContactTimeoutMs(s1)
      targetAt == s1.session.lastMessageSentAt + timeoutMs
      delay == targetAt - I.now
  IN IF ~s1.session.exists \/ s1.session.lastMessageSentAt = 0 THEN s1
     ELSE IF timeoutMs <= 0 THEN s1
     ELSE IF delay <= 0
     THEN Emit(s1, Event(CONTACT_TIMEOUT_MAXIMUM_TIME_REACHED, NoId, EmptyText, "-"))
     ELSE [s1 EXCEPT !.contactTimeoutTimer = targetAt, !.contactTimers = Append(@, targetAt)]


_scheduleContactTimeoutCheck(s, I) ==
  LET s1 == _clearContactTimeoutTimer(s)
      timeoutMs == _getContactTimeoutMs(s1)
      targetAt == s1.session.lastMessageSentAt + timeoutMs
      delay == targetAt - I.now
  IN IF ~s1.session.exists \/ s1.session.lastMessageSentAt = 0 THEN s1
     ELSE IF timeoutMs <= 0 THEN s1
     ELSE IF delay <= 0
     THEN Emit(s1, Event(CONTACT_TIMEOUT_MAXIMUM_TIME_REACHED, NoId, EmptyText, "-"))
     ELSE [s1 EXCEPT !.contactTimeoutTimer = targetAt, !.contactTimers = Append(@, targetAt)]

createNewSession(s, I) ==
  LET id == IF s.config.sessionId # NullStr THEN s.config.sessionId
            ELSE generateSessionId(s.config.clientId, I.hostname, I.rnd, I.now)
      s1 == [s EXCEPT !.session = [exists |-> TRUE, id |-> id, createdAt |-> I.now,
                                   lastActivity |-> I.now, lastMessageSentAt |-> 0,
                                   conversation |-> <<>>]]
      s2 == _scheduleContactTimeoutCheck(_startAutoClearTimer(_save(s1, I), I), I)
  IN [s2 EXCEPT !.ret = s2.session]

getOrCreate(s, I) ==
  IF s.session.exists /\ s.session.id # NullStr THEN [s EXCEPT !.ret = s.session]
  ELSE LET stored == get(s.storage)
       IN IF stored.exists /\ _isSessionValid(s, stored, I)
          THEN LET s1 == _updateLastActivity([s EXCEPT !.session = stored], I)
               IN [s1 EXCEPT !.ret = s1.session]
          ELSE createNewSession(s, I)

restore(s, I) ==
  LET stored == get(s.storage)
  IN IF stored.exists /\ _isSessionValid(s, stored, I)
     THEN LET s1 == _updateLastActivity([s EXCEPT !.session = stored], I)
              s2 == _scheduleContactTimeoutCheck(_startAutoClearTimer(s1, I), I)
          IN [s2 EXCEPT !.ret = s2.session]
     ELSE [s EXCEPT !.ret = NoSession]

clear(s) ==
  LET s1 == [s EXCEPT !.session = NoSession, !.storage = remove(@)]
  IN _clearContactTimeoutTimer(_stopAutoClearTimer(s1))

setLastMessageSentAt(s, timestamp, I) ==
  IF ~s.session.exists THEN s
  ELSE _scheduleContactTimeoutCheck(_save([s EXCEPT !.session.lastMessageSentAt = timestamp], I), I)

getConversation(s) == IF ~s.session.exists THEN <<>> ELSE s.session.conversation

setConversation(s, messages, I) ==
  IF ~s.session.exists THEN s
  ELSE _save(_updateLastActivity([s EXCEPT !.session.conversation = messages], I), I)

\* options.limit: [kind |-> "number", n |-> k], or kind "absent" when it is not a number
NoLimit == [kind |-> "absent", n |-> 0]
Limit(n) == [kind |-> "number", n |-> n]

appendToConversation(s, message, options, I) ==
  IF ~s.session.exists THEN s
  ELSE LET list == Append(getConversation(s), message)
           trimmed == IF options.kind = "number" /\ options.n # 0 /\ options.n > 0 /\ Len(list) > options.n
                      THEN SubSeq(list, Len(list) - options.n + 1, Len(list))
                      ELSE list
       IN _save(_updateLastActivity([s EXCEPT !.session.conversation = trimmed], I), I)

\* list.find(m => m.id === messageId) throws on a null or undefined entry
\* met before the match; the handler then ends without saving.
updateConversation(s, messageId, status, I) ==
  IF ~s.session.exists THEN s
  ELSE LET list == getConversation(s)
           hits == {i \in 1..Len(list) : list[i].kind = "object" /\ list[i].id = messageId}
           bad == {i \in 1..Len(list) : list[i].kind # "object"}
           first == IF hits = {} THEN Len(list) + 1 ELSE CHOOSE i \in hits : \A j \in hits : i <= j
       IN IF \E i \in bad : i < first THEN s
          ELSE IF hits = {} THEN _save(s, I)
          ELSE _save([s EXCEPT !.session.conversation[first].status = status], I)

\* The timeout armed for deadline fires: it leaves the pending timeouts and
\* the callback given to setTimeout by _scheduleContactTimeoutCheck runs.
contactTimeoutTimerCallback(s, deadline) ==
  LET s1 == [s EXCEPT !.contactTimers = clearTimeout(@, deadline)]
  IN _clearContactTimeoutTimer(Emit(s1, Event(CONTACT_TIMEOUT_MAXIMUM_TIME_REACHED, NoId, EmptyText, "-")))

(***************************************************************************)
(* SessionManager: actions                                                 *)
(***************************************************************************)
SmStart(s) == [s EXCEPT !.out = <<>>, !.ret = NoSession]

\* What the store held for restore(): a well-formed session whose
\* lastMessageSentAt is older than now minus the contact timeout.
StoredExpired(s, now) ==
  LET stored == get(s.storage)
  IN /\ stored.exists
     /\ stored.lastActivity # 0
     /\ _isValidSessionIdFormat(stored.id)
     /\ stored.lastMessageSentAt # 0
     /\ stored.lastMessageSentAt < now - _getContactTimeoutMs(s)

\* The session getOrCreate() finds loaded: the one in memory, else the
\* stored one that passes the validity check.
LoadedSession(s, I) ==
  IF s.session.exists THEN s.session
  ELSE IF get(s.storage).exists /\ get(s.storage).lastActivity # 0 /\ get(s.storage).id # NullStr
          /\ (get(s.storage).lastMessageSentAt = 0
              \/ I.now - get(s.storage).lastMessageSentAt < _getContactTimeoutMs(s))
  THEN get(s.storage)
  ELSE NoSession

Op(name) ==
  [name |-> name, m |-> NoMessage, loaded |-> NoSession, expired |-> FALSE, hadSession |-> sm.session.exists,
   hadTimer |-> sm.contactTimeoutTimer # NoTimer]

\* I = [now, hostname, rnd, first]: what a call reads from its environment;
\* first (the key the store lists first) is read only when the quota is hit
EnvInputs ==
  {[now |-> smEnv.now, hostname |-> smEnv.hostname, rnd |-> rnd, first |-> first] :
     rnd \in {9},
     first \in IF sm.storage.quota = UnlimitedQuota THEN {"session"} ELSE {"session", "other"}}

GetOrCreate ==
  /\ \E I \in EnvInputs :
       /\ sm' = getOrCreate(SmStart(sm), I)
       /\ smOp' = [Op("getOrCreate") EXCEPT !.loaded = LoadedSession(sm, I)]
  /\ UNCHANGED <<smEnv, mpVars, wsVars, svcVars>>

Restore ==
  /\ \E I \in EnvInputs :
       sm' = restore(SmStart(sm), I)
  /\ smOp' = [Op("restore") EXCEPT !.expired = StoredExpired(sm, smEnv.now),
                                   !.m = IF smOp.name = "newEngine" THEN smOp.m ELSE NoMessage]
  /\ UNCHANGED <<smEnv, mpVars, wsVars, svcVars>>

CreateNewSession ==
  /\ \E I \in EnvInputs :
       sm' = createNewSession(SmStart(sm), I)
  /\ smOp' = Op("createNewSession")
  /\ UNCHANGED <<smEnv, mpVars, wsVars, svcVars>>

Clear ==
  /\ sm' = clear(SmStart(sm))
  /\ smOp' = Op("clear")
  /\ UNCHANGED <<smEnv, mpVars, wsVars, svcVars>>

SetLastMessageSentAt ==
  /\ \E I \in EnvInputs :
       sm' = setLastMessageSentAt(SmStart(sm), I.now, I)
  /\ smOp' = Op("setLastMessageSentAt")
  /\ UNCHANGED <<smEnv, mpVars, wsVars, svcVars>>

AppendToConversation ==
  /\ \E I \in EnvInputs, m \in Messages, options \in {NoLimit, Limit(0), Limit(0 - 1), Limit(1)} :
       /\ (options.kind = "number" /\ options.n > 0) \/ Len(sm.session.conversation) < MaxConv
       /\ sm' = appendToConversation(SmStart(sm), m, options, I)
       /\ smOp' = [Op("appendToConversation") EXCEPT !.m = m]
  /\ UNCHANGED <<smEnv, mpVars, wsVars, svcVars>>

SetConversation ==
  /\ \E I \in EnvInputs, messages \in {<<>>} :
       sm' = setConversation(SmStart(sm), messages, I)
  /\ smOp' = Op("setConversation")
  /\ UNCHANGED <<smEnv, mpVars, wsVars, svcVars>>

UpdateConversation ==
  /\ \E I \in EnvInputs, id \in {"m1"} :
       sm' = updateConversation(SmStart(sm), id, "sent", I)
  /\ smOp' = Op("updateConversation")
  /\ UNCHANGED <<smEnv, mpVars, wsVars, svcVars>>

AutoClearTimerFires ==
  /\ sm.clearTimer # NoTimer
  /\ smEnv.now >= sm.clearTimer
  /\ sm' = clear(SmStart(sm))
  /\ smOp' = Op("autoClearTimer")
  /\ UNCHANGED <<smEnv, mpVars, wsVars, svcVars>>

ContactTimeoutTimerFires ==
  /\ \E i \in DOMAIN sm.contactTimers :
       /\ smEnv.now >= sm.contactTimers[i]
       /\ sm' = contactTimeoutTimerCallback(SmStart(sm), sm.contactTimers[i])
  /\ smOp' = Op("contactTimeoutTimer")
  /\ UNCHANGED <<smEnv, mpVars, wsVars, svcVars>>

\* A minute passes; a timer that is due fires before the clock moves on.
Tick ==
  /\ smEnv.now < MaxMinutes * MsPerMinute
  /\ sm.clearTimer # NoTimer => smEnv.now < sm.clearTimer
  /\ \A i \in DOMAIN sm.contactTimers : smEnv.now < sm.contactTimers[i]
  /\ smEnv' = [smEnv EXCEPT !.now = @ + MsPerMinute]
  /\ sm' = SmStart(sm)
  /\ smOp' = Op("tick")
  /\ UNCHANGED <<mpVars, wsVars, svcVars>>

\* The page is loaded again: a fresh SessionManager over the same storage.
NewEngine ==
  /\ sm' = SessionManager(sm.storage, smEnv.config)
  /\ smOp' = [Op("newEngine") EXCEPT
                !.m = IF smOp.name = "appendToConversation" /\ smOp.hadSession THEN smOp.m ELSE NoMessage]
  /\ UNCHANGED <<smEnv, mpVars, wsVars, svcVars>>

DefaultIdentity == [clientId |-> NullStr, sessionId |-> NullStr, hostname |-> <<"h">>]

Identities ==
  {[DefaultIdentity EXCEPT !.clientId = c] : c \in {NullStr, <<"a">>, <<"SP">>, <<"a", "LF">>}}
  \cup {[DefaultIdentity EXCEPT !.hostname = <<>>]}
  \cup {[DefaultIdentity EXCEPT !.sessionId = i] : i \in {<<"7", "@", "a">>, <<"a">>}}

EmptyStorage == StorageManager(AbsentItem, AbsentItem, UnlimitedQuota)

Storages ==
  {EmptyStorage, StorageManager(CorruptItem, AbsentItem, UnlimitedQuota),
   StorageManager(AbsentItem, Envelope(0, NoSession), 2),
   StorageManager(AbsentItem, Envelope(0, NoSession), 1)}

NextSM ==
  \/ GetOrCreate
  \/ Restore
  \/ CreateNewSession
  \/ Clear
  \/ SetLastMessageSentAt
  \/ AppendToConversation
  \/ SetConversation
  \/ UpdateConversation
  \/ AutoClearTimerFires
  \/ ContactTimeoutTimerFires
  \/ Tick
  \/ NewEngine

(***************************************************************************)
(* StateManager                                                            *)
(***************************************************************************)
MaxSvcFrames == 3
MaxSends == 1

NoError == "null"

\* state.session is the SessionManager's session object itself; the view is
\* modelled by whether it was set and the id of that object.
StateManager ==
  [messages |-> <<>>,
   session |-> [set |-> FALSE, id |-> NullStr],
   connection |-> [status |-> "disconnected", reconnectAttempts |-> 0, lastError |-> NoError],
   context |-> EmptyText, isTyping |-> FALSE, isThinking |-> FALSE, error |-> NoError]

addMessage(st, message) == [st EXCEPT !.messages = Append(@, message)]

updateMessage(st, messageId, status) ==
  [st EXCEPT !.messages = [i \in DOMAIN @ |->
     IF @[i].kind = "object" /\ @[i].id = messageId THEN [@[i] EXCEPT !.status = status] ELSE @[i]]]

\* Variant of clearMessages that also drops the session from the view.
clearMessages_dropSession(st) ==
  [st EXCEPT !.messages = <<>>, !.session = [set |-> FALSE, id |-> NullStr]]

clearMessages(st) == [st EXCEPT !.messages = <<>>]

setConnectionStatus(st, status) == [st EXCEPT !.connection.status = status]

setSession(st, session) ==
  [st EXCEPT !.session = [set |-> TRUE, id |-> session.id], !.messages = session.conversation]

\* StateManager.reset
resetState(st) == StateManager

(***************************************************************************)
(* WeniWebchatService: the components wired by _setupEventListeners.       *)
(* Y = [mp, ws, sm, state, svc] is the service with its components.        *)
(***************************************************************************)
WeniWebchatService ==
  [_initialized |-> FALSE, _connected |-> FALSE, _connecting |-> FALSE,
   listeners |-> TRUE,      \* removeAllListeners() has not been called on the service
   nSent |-> 0,             \* messages built by sendMessage so far
   nFrames |-> 0,           \* frames handed to the service so far
   op |-> [name |-> "new", had |-> 0]]

OutIds == <<"msg_1", "msg_2", "msg_3">>    \* ids generateMessageId() returns, in order

\* The listeners on the message processor.
RECURSIVE OnProcessorEvents(_, _, _)
OnProcessorEvents(Y, out, I) ==
  IF out = <<>> THEN Y
  ELSE LET e == Head(out)
           Y1 == CASE e.ev = "message:processed" ->
                        [Y EXCEPT !.state = addMessage(@, Message(e.id, e.status)),
                                  !.sm = appendToConversation(@, Message(e.id, e.status), NoLimit, I)]
                   [] e.ev = "typing:start" -> [Y EXCEPT !.state.isTyping = TRUE]
                   [] e.ev = "typing:stop" -> [Y EXCEPT !.state.isTyping = FALSE]
                   [] e.ev = "thinking:start" -> [Y EXCEPT !.state.isThinking = TRUE]
                   [] e.ev = "thinking:stop" -> [Y EXCEPT !.state.isThinking = FALSE]
                   [] OTHER -> Y
       IN OnProcessorEvents(Y1, Tail(out), I)

\* The listeners on the websocket manager.
RECURSIVE OnWebSocketEvents(_, _)
OnWebSocketEvents(Y, out) ==
  IF out = <<>> THEN Y
  ELSE LET e == Head(out)
           Y1 == CASE e.ev = "connected" -> [Y EXCEPT !.state = setConnectionStatus(@, "connected")]
                   [] e.ev = "disconnected" ->
                        [Y EXCEPT !.state = setConnectionStatus(@, "disconnected"), !.svc._connected = FALSE]
                   [] e.ev = "reconnecting" ->
                        [Y EXCEPT !.state = [setConnectionStatus(@, "reconnecting") EXCEPT
                                               !.connection.reconnectAttempts = Y.ws.reconnectAttempts]]
                   [] e.ev = "connection:status:changed" -> [Y EXCEPT !.state = setConnectionStatus(@, e.status)]
                   [] e.ev = "error" -> [Y EXCEPT !.state.error = "error"]
                   [] OTHER -> Y
       IN OnWebSocketEvents(Y1, Tail(out))

(***************************************************************************)
(* WeniWebchatService: actions                                             *)
(***************************************************************************)
SvcI == [now |-> smEnv.now, hostname |-> smEnv.hostname, rnd |-> 9, first |-> "session"]

Sys(name) ==
  [mp |-> [mp EXCEPT !.out = <<>>], ws |-> WsStart(ws), sm |-> SmStart(sm), state |-> state,
   svc |-> [svc EXCEPT !.op = IF name \in {"clearMessages", "clearSession"}
                              THEN [name |-> name, had |-> Len(state.messages)]
                              ELSE [name |-> "other", had |-> 0]]]

\* The step's events have been handed to the listeners above; what the
\* components keep is their state.
SvcStep(Y) ==
  /\ mp' = [Y.mp EXCEPT !.out = <<>>] /\ ws' = WsStart(Y.ws) /\ sm' = SmStart(Y.sm)
  /\ state' = Y.state /\ svc' = Y.svc
  /\ UNCHANGED <<mpIn, mpLog, mpHist, nFrames, mpFinal, wsHist, smEnv, smOp, hm, rs, mpUpd>>

\* connect() up to its await; the history request that follows a
\* successful connect is not part of this model.
ServiceConnect ==
  /\ ~svc._connected /\ ~svc._connecting
  /\ LET Y0 == Sys("connect")
         Y1 == [Y0 EXCEPT !.svc._connecting = TRUE, !.sm = getOrCreate(@, SvcI)]
         Y2 == [Y1 EXCEPT !.state = setSession(@, Y1.sm.session)]
         early == Y2.ws.status \in {"connected", "connecting"}
         w == connect(Y2.ws, "data")
         Y3 == OnWebSocketEvents([Y2 EXCEPT !.ws = w], w.out)
     IN SvcStep(IF early THEN [Y3 EXCEPT !.svc._connected = TRUE, !.svc._connecting = FALSE]
                ELSE IF w.connectPromise = "rejected"
                THEN [Y3 EXCEPT !.state.error = "error", !.svc._connecting = FALSE]
                ELSE Y3)

\* The socket opens and the register frame is written (a register() that
\* throws is an input of SocketOpen).
SvcSocketOpen ==
  /\ ws.socket = "CONNECTING"
  /\ LET Y0 == Sys("open")
         w == onOpen(socketOnOpen([Y0.ws EXCEPT !.socket = "OPEN"], ws.connectArg, FALSE), FALSE)
     IN SvcStep(OnWebSocketEvents([Y0 EXCEPT !.ws = w], w.out))

\* ready_for_message; connect() resumes when its promise is resolved
SvcReadyForMessage ==
  /\ ws.socket = "OPEN"
  /\ ~ws.handshaken
  /\ LET Y0 == Sys("ready")
         w == _handleReadyForMessage([Y0.ws EXCEPT !.handshaken = TRUE])
         Y1 == OnWebSocketEvents([Y0 EXCEPT !.ws = w], w.out)
     IN SvcStep(IF svc._connecting /\ ws.connectPromise = "pending" /\ w.connectPromise = "resolved"
                THEN [Y1 EXCEPT !.svc._connected = TRUE, !.svc._connecting = FALSE]
                ELSE Y1)

\* sendMessage(text) called while the socket is not connecting, so that
\* websocket.send() settles at once
SendMessage ==
  /\ svc.nSent < MaxSends
  /\ ws.socket # "CONNECTING"
  /\ \E throws \in BOOLEAN :
       LET Y0 == Sys("sendMessage")
           id == OutIds[svc.nSent + 1]
           message == Message(id, "pending")
           Y1 == [Y0 EXCEPT !.svc.nSent = @ + 1,
                            !.state = addMessage(@, message),
                            !.sm = appendToConversation(@, message, NoLimit, SvcI)]
           r == send(Y1.ws, "message", throws)
           Y2 == OnWebSocketEvents([Y1 EXCEPT !.ws = r.w], r.w.out)
       IN SvcStep(IF r.p = "resolved"
                  THEN [Y2 EXCEPT !.mp = startTypingOnMessageSent(@),
                                  !.state = updateMessage(@, id, "sent")]
                  ELSE [Y2 EXCEPT !.state = updateMessage(@, id, "error")])

SvcFrames ==
  {Frame("stream_start", "A", NonNumberSeq, EmptyText, EmptyText, "-", NoType, FALSE),
   Frame(NoType, NoId, Num(1), <<"a">>, EmptyText, "-", NoType, TRUE),
   Frame(NoType, "A", Num(1), <<"a">>, EmptyText, "-", NoType, TRUE),
   Frame("stream_end", "A", NonNumberSeq, EmptyText, EmptyText, "-", NoType, FALSE)}

\* A frame reaches messageProcessor.process (websocket 'message' listener,
\* simulateMessageReceived).
SimulateMessageReceived ==
  /\ svc.nFrames < MaxSvcFrames
  /\ \E raw \in SvcFrames :
       LET Y0 == Sys("message")
           m == process(Y0.mp, raw)
       IN SvcStep(OnProcessorEvents([Y0 EXCEPT !.mp = m, !.svc.nFrames = @ + 1], m.out, SvcI))

SvcTypingTimerFires ==
  /\ mp.typingTimer # "none"
  /\ LET Y0 == Sys("typingTimer")
         m == typingTimerCallback(Y0.mp)
     IN SvcStep(OnProcessorEvents([Y0 EXCEPT !.mp = m], m.out, SvcI))

\* destroy(): disconnect() (websocket.disconnect(), permanent by default),
\* removeAllListeners() on the service, flags reset
Destroy ==
  /\ svc.listeners
  /\ LET Y0 == Sys("destroy")
         w == disconnect(Y0.ws, TRUE)
         Y1 == OnWebSocketEvents([Y0 EXCEPT !.ws = w], w.out)
     IN SvcStep([Y1 EXCEPT !.svc.listeners = FALSE, !.svc._initialized = FALSE, !.svc._connected = FALSE])

ClearMessages ==
  /\ state.messages # <<>>
  /\ SvcStep([Sys("clearMessages") EXCEPT !.state = clearMessages(@)])

ClearSession ==
  /\ state # StateManager
  /\ SvcStep([Sys("clearSession") EXCEPT !.sm = clear(@), !.state = resetState(@)])

SetContext ==
  /\ state.context = EmptyText
  /\ SvcStep([Sys("setContext") EXCEPT !.state.context = <<"a">>])

NextSvc ==
  \/ ServiceConnect
  \/ SvcSocketOpen
  \/ SvcReadyForMessage
  \/ SendMessage
  \/ SimulateMessageReceived
  \/ SvcTypingTimerFires
  \/ Destroy
  \/ ClearMessages
  \/ ClearSession
  \/ SetContext

(***************************************************************************)
(* WeniWebchatService: connection loss and timers                          *)
(***************************************************************************)
getSessionId(s) == IF s.session.exists THEN s.session.id ELSE NullStr

isConnected(Y) == Y.svc._connected /\ Y.ws.status = "connected"

\* The socket closes (after an error event when it failed; a socket that
\* never opened always fails).  The promise of websocket.connect() is
\* settled by neither handler, so a connect() of the service that awaits it
\* stays suspended.
SvcSocketClose ==
  /\ ws.socket \in {"CONNECTING", "OPEN"}
  /\ \E rnd \in RandomTenths, failed \in BOOLEAN :
       /\ ws.socket = "CONNECTING" => failed
       /\ LET Y0 == Sys("close")
               w0 == [Y0.ws EXCEPT !.socket = "CLOSED"]
               w1 == IF failed THEN onError(socketOnError(w0), 0) ELSE w0
               w == onClose(_handleDisconnect(w1, rnd), 0)
           IN SvcStep(OnWebSocketEvents([Y0 EXCEPT !.ws = w], w.out))

SvcReconnectTimerFires ==
  /\ ws.reconnectTimer
  /\ (ws.socket \in {"CONNECTING", "OPEN"}) => ws.stale < MaxStale
  /\ LET Y0 == Sys("reconnectTimer")
         w == reconnectTimerCallback(Y0.ws)
     IN SvcStep(OnWebSocketEvents([Y0 EXCEPT !.ws = w], w.out))

\* cacheTimeout passes and the session's auto-clear timer fires.
SvcAutoClearTimerFires ==
  /\ sm.clearTimer # NoTimer
  /\ smEnv.now < MaxMinutes * MsPerMinute
  /\ smEnv' = [smEnv EXCEPT !.now = IF sm.clearTimer > @ THEN sm.clearTimer ELSE @]
  /\ LET Y == [Sys("autoClearTimer") EXCEPT !.sm = clear(@)]
     IN /\ mp' = [Y.mp EXCEPT !.out = <<>>] /\ ws' = WsStart(Y.ws) /\ sm' = SmStart(Y.sm)
        /\ state' = Y.state /\ svc' = Y.svc
  /\ UNCHANGED <<mpIn, mpLog, mpHist, nFrames, mpFinal, wsHist, smOp, hm, rs, mpUpd>>

NextSvcConn ==
  \/ ServiceConnect
  \/ SvcSocketOpen
  \/ SvcReadyForMessage
  \/ SendMessage
  \/ SvcSocketClose
  \/ SvcReconnectTimerFires
  \/ SvcAutoClearTimerFires

(***************************************************************************)
(* HistoryManager                                                          *)
(***************************************************************************)
MaxRequests == 3

\* message.history of a history frame: not an array, or an array whose
\* items are objects or null
NotArray == [isArray |-> FALSE, items |-> <<>>]
HistoryArray(items) == [isArray |-> TRUE, items |-> items]
Histories == {NotArray, HistoryArray(<<>>), HistoryArray(<<"object">>), HistoryArray(<<"object", "null">>)}

HistoryManager ==
  [loading |-> FALSE,
   requests |-> <<>>,     \* the promises request() returned, oldest first, each with its
                          \* 30 s timer and its once(HISTORY_RESPONSE) listener
   out |-> <<>>]

\* rawHistory.map(item => ...) reads item.ID: a null item throws
processHistory(rawHistory) ==
  IF ~rawHistory.isArray THEN [threw |-> FALSE, n |-> 0]
  ELSE IF \E i \in DOMAIN rawHistory.items : rawHistory.items[i] = "null"
  THEN [threw |-> TRUE, n |-> 0]
  ELSE [threw |-> FALSE, n |-> Len(rawHistory.items)]

\* request(): websocket.send(payload) is the caller's part (its promise is
\* not awaited)
request(h) ==
  IF h.loading
  THEN [h EXCEPT !.requests = Append(@, [promise |-> "rejected", timeout |-> FALSE, listening |-> FALSE,
                                        error |-> "History request already in progress"])]
  ELSE LET h1 == Emit([h EXCEPT !.loading = TRUE], Event("history:loading:start", NoId, EmptyText, "-"))
           h2 == Emit(h1, Event("history:requested", NoId, EmptyText, "-"))
       IN [h2 EXCEPT !.requests = Append(@, [promise |-> "pending", timeout |-> TRUE, listening |-> TRUE,
                                             error |-> "-"])]

\* the setTimeout callback of request i
historyTimeoutCallback(h, i) ==
  LET h1 == Emit([h EXCEPT !.loading = FALSE, !.requests[i].timeout = FALSE],
                 Event("history:loading:end", NoId, EmptyText, "-"))
  IN IF h1.requests[i].promise = "pending"
     THEN [h1 EXCEPT !.requests[i].promise = "rejected", !.requests[i].error = "History request timeout"]
     ELSE h1

\* handleHistory of request i; done = FALSE when processHistory threw
handleHistory(h, i, history) ==
  LET h1 == [h EXCEPT !.requests[i].timeout = FALSE, !.loading = FALSE]
      processedHistory == processHistory(history)
      h2 == Emit(Emit(h1, Event("history:loading:end", NoId, EmptyText, "-")),
                 Event("history:loaded", NoId, EmptyText, "-"))
  IN IF processedHistory.threw THEN [done |-> FALSE, h |-> h1]
     ELSE [done |-> TRUE,
           h |-> IF h2.requests[i].promise = "pending" THEN [h2 EXCEPT !.requests[i].promise = "resolved"] ELSE h2]

\* emit(HISTORY_RESPONSE, history): the once-listeners run in the order they
\* were added, each removed before it is called; a listener that throws ends
\* the emit.
RECURSIVE EmitHistoryResponse(_, _, _)
EmitHistoryResponse(h, i, history) ==
  IF i > Len(h.requests) THEN [done |-> TRUE, h |-> h]
  ELSE IF ~h.requests[i].listening THEN EmitHistoryResponse(h, i + 1, history)
  ELSE LET r == handleHistory([h EXCEPT !.requests[i].listening = FALSE], i, history)
       IN IF r.done THEN EmitHistoryResponse(r.h, i + 1, history) ELSE r

Pending(h) == {i \in DOMAIN h.requests : h.requests[i].promise = "pending"}

(***************************************************************************)
(* HistoryManager: actions                                                 *)
(***************************************************************************)
HistoryRequest ==
  /\ Len(hm.requests) < MaxRequests
  /\ Len(ws.pendingSends) < MaxPendingSends
  /\ hm' = request([hm EXCEPT !.out = <<>>])
  /\ ws' = IF hm.loading THEN WsStart(ws) ELSE send(WsStart(ws), "get_history", FALSE).w
  /\ UNCHANGED <<wsHist, mpVars, smVars, state, svc, rs, mpUpd>>

\* A history frame arrives: _handleMessage emits 'message', the listener of
\* the history manager emits HISTORY_RESPONSE; what a listener throws is
\* caught by _handleMessage and reported as a parse failure.
HistoryResponse ==
  /\ ws.socket = "OPEN"
  /\ \E history \in Histories :
       LET r == EmitHistoryResponse([hm EXCEPT !.out = <<>>], 1, history)
       IN /\ hm' = r.h
          /\ ws' = IF r.done THEN WsStart(ws)
                   ELSE Emit(WsStart(ws), Event("error", NoId, EmptyText, "Failed to parse message"))
  /\ UNCHANGED <<wsHist, mpVars, smVars, state, svc, rs, mpUpd>>

HistoryTimeoutFires ==
  /\ \E i \in DOMAIN hm.requests :
       /\ hm.requests[i].timeout
       /\ hm' = historyTimeoutCallback([hm EXCEPT !.out = <<>>], i)
  /\ UNCHANGED <<wsVars, mpVars, smVars, state, svc, rs, mpUpd>>

NextHist ==
  \/ HistoryRequest
  \/ HistoryResponse
  \/ HistoryTimeoutFires
  \/ Connect
  \/ SocketOpen
  \/ ReadyForMessage
  \/ SocketClose

NoOp == [name |-> "new", m |-> NoMessage, loaded |-> NoSession, expired |-> FALSE, hadSession |-> FALSE, hadTimer |-> FALSE]
IdleEnv == [now |-> MsPerMinute, hostname |-> <<"h">>, config |-> RawConfig(TRUE, 0, 0, NullStr, NullStr)]

\* The message processor as constructed; the other components are idle.
Init ==
  /\ mp \in {MessageProcessor(e) : e \in BOOLEAN}
  /\ mpIn = NoFrame
  /\ mpLog = <<>>
  /\ mpHist = NoHist
  /\ mpFinal = <<>>
  /\ nFrames = 0
  /\ ws = WebSocketManager(TRUE, NoRetryStrategy, TRUE)
  /\ wsHist = NoLoss
  /\ smEnv = IdleEnv
  /\ sm = SessionManager(EmptyStorage, IdleEnv.config)
  /\ smOp = NoOp
  /\ state = StateManager
  /\ svc = WeniWebchatService
  /\ hm = HistoryManager
  /\ rs = [r |-> RetryStrategy(TRUE), op |-> NoCall]
  /\ mpUpd = EmptyMap

\* The connection engine as constructed; the other components are idle.
InitWS ==
  /\ ws \in {WebSocketManager(a, r, u) : a \in BOOLEAN, u \in BOOLEAN,
                r \in {RetryStrategy(TRUE), RetryStrategy(FALSE), NoRetryStrategy}}
  /\ wsHist = NoLoss
  /\ mp = MessageProcessor(TRUE)
  /\ mpIn = NoFrame
  /\ mpLog = <<>>
  /\ mpHist = NoHist
  /\ mpFinal = <<>>
  /\ nFrames = 0
  /\ smEnv = IdleEnv
  /\ sm = SessionManager(EmptyStorage, IdleEnv.config)
  /\ smOp = NoOp
  /\ state = StateManager
  /\ svc = WeniWebchatService
  /\ hm = HistoryManager
  /\ rs = [r |-> RetryStrategy(TRUE), op |-> NoCall]
  /\ mpUpd = EmptyMap

\* The session engine as constructed over a storage; the other components are idle.
InitSM ==
  /\ \E a \in BOOLEAN, x \in Identities, st \in Storages :
       /\ x = DefaultIdentity \/ st = EmptyStorage
       /\ smEnv = [now |-> MsPerMinute, hostname |-> x.hostname,
                   config |-> RawConfig(a, 2 * MsPerMinute, 1, x.clientId, x.sessionId)]
       /\ sm = SessionManager(st, smEnv.config)
  /\ smOp = NoOp
  /\ state = StateManager
  /\ svc = WeniWebchatService
  /\ hm = HistoryManager
  /\ rs = [r |-> RetryStrategy(TRUE), op |-> NoCall]
  /\ mpUpd = EmptyMap
  /\ mp = MessageProcessor(TRUE)
  /\ mpIn = NoFrame
  /\ mpLog = <<>>
  /\ mpHist = NoHist
  /\ mpFinal = <<>>
  /\ nFrames = 0
  /\ ws = WebSocketManager(TRUE, NoRetryStrategy, TRUE)
  /\ wsHist = NoLoss

\* The service as constructed, with its components.
InitSvc ==
  /\ state = StateManager
  /\ svc = WeniWebchatService
  /\ hm = HistoryManager
  /\ rs = [r |-> RetryStrategy(TRUE), op |-> NoCall]
  /\ mpUpd = EmptyMap
  /\ mp = MessageProcessor(TRUE)
  /\ mpIn = NoFrame
  /\ mpLog = <<>>
  /\ mpHist = NoHist
  /\ mpFinal = <<>>
  /\ nFrames = 0
  /\ ws = WebSocketManager(TRUE, RetryStrategy(TRUE), TRUE)
  /\ wsHist = NoLoss
  /\ smEnv = IdleEnv
  /\ sm = SessionManager(EmptyStorage, IdleEnv.config)
  /\ smOp = NoOp

Next ==
  \/ RecvMessage
  \/ RecvStreamStart
  \/ RecvDelta
  \/ RecvStreamEnd
  \/ RecvTypingStart
  \/ RecvUnknown
  \/ MessageSent
  \/ TypingTimerFires

Spec == Init /\ [][Next]_vars

\* The message processor observed with the update texts of every id.
ProcessTracked ==
  \E raw \in MessageFrames \cup StreamStartFrames \cup DeltaFrames \cup StreamEndFrames
              \cup TypingFrames \cup UnknownFrames :
    /\ ProcessFrame(raw)
    /\ mpUpd' = LastTexts(mpUpd, mp'.out)
    /\ UNCHANGED <<wsVars, smVars, state, svc, hm, rs>>

\* The message processor after earlier streams have filled its dedup window.
FilledWindows ==
  {<<<<"a">>, <<"b">>, <<"a", "a">>, <<"a", "b">>>>,
   <<<<"a">>, <<"b">>, <<"a", "a">>, <<"a", "b">>, <<"b", "a">>>>}

InitDedup ==
  /\ \E w \in FilledWindows :
       /\ mp = [MessageProcessor(TRUE) EXCEPT !.recentIncomingTexts = w]
       /\ mpFinal = w
  /\ mpIn = NoFrame
  /\ mpLog = <<>>
  /\ mpHist = NoHist
  /\ nFrames = 0
  /\ ws = WebSocketManager(TRUE, NoRetryStrategy, TRUE)
  /\ wsHist = NoLoss
  /\ smEnv = IdleEnv
  /\ sm = SessionManager(EmptyStorage, IdleEnv.config)
  /\ smOp = NoOp
  /\ state = StateManager
  /\ svc = WeniWebchatService
  /\ hm = HistoryManager
  /\ rs = [r |-> RetryStrategy(TRUE), op |-> NoCall]
  /\ mpUpd = EmptyMap

NextDedup ==
  \/ RecvMessage
  \/ RecvStreamStart
  \/ RecvDelta
  \/ RecvStreamEnd

SpecDedup == InitDedup /\ [][NextDedup]_vars

NextUpd == ProcessTracked \/ MessageSent \/ TypingTimerFires

SpecUpd == Init /\ [][NextUpd]_vars

SpecWS == InitWS /\ [][NextWS]_vars

SpecSM == InitSM /\ [][NextSM]_vars

SpecSvc == InitSvc /\ [][NextSvc]_vars

\* The service with connection loss, automatic reconnection and the
\* session's auto-clear timer.
SpecSvcConn == InitSvc /\ [][NextSvcConn]_vars

\* The same with a server that answers: a socket that stays connecting
\* eventually opens, an open one eventually gets ready_for_message.
SpecSvcConnFair ==
  InitSvc /\ [][NextSvcConn]_vars /\ WF_vars(SvcSocketOpen) /\ WF_vars(SvcReadyForMessage)

\* The history manager over a connection engine without auto-reconnect.
InitHist ==
  /\ hm = HistoryManager
  /\ rs = [r |-> RetryStrategy(TRUE), op |-> NoCall]
  /\ mpUpd = EmptyMap
  /\ ws = WebSocketManager(FALSE, NoRetryStrategy, TRUE)
  /\ wsHist = NoLoss
  /\ mp = MessageProcessor(TRUE)
  /\ mpIn = NoFrame
  /\ mpLog = <<>>
  /\ mpHist = NoHist
  /\ mpFinal = <<>>
  /\ nFrames = 0
  /\ smEnv = IdleEnv
  /\ sm = SessionManager(EmptyStorage, IdleEnv.config)
  /\ smOp = NoOp
  /\ state = StateManager
  /\ svc = WeniWebchatService

SpecHist == InitHist /\ [][NextHist]_vars

\* A retry strategy as constructed from a configuration.
InitRetry ==
  /\ rs \in {[r |-> [RetryStrategy(TRUE) EXCEPT !.config = c], op |-> NoCall] : c \in RetryConfigs}
  /\ hm = HistoryManager
  /\ mpUpd = EmptyMap
  /\ ws = WebSocketManager(TRUE, NoRetryStrategy, TRUE)
  /\ wsHist = NoLoss
  /\ mp = MessageProcessor(TRUE)
  /\ mpIn = NoFrame
  /\ mpLog = <<>>
  /\ mpHist = NoHist
  /\ mpFinal = <<>>
  /\ nFrames = 0
  /\ smEnv = IdleEnv
  /\ sm = SessionManager(EmptyStorage, IdleEnv.config)
  /\ smOp = NoOp
  /\ state = StateManager
  /\ svc = WeniWebchatService

SpecRetry == InitRetry /\ [][NextRetry]_vars

(***************************************************************************)
(* Properties of the MessageProcessor (checked under Spec)                 *)
(***************************************************************************)
ProcessStep == nFrames' = nFrames + 1
IsDelta(raw) == _extractMessageType(raw) = "delta"
HasEv(out, ev) == CountEv(out, ev) > 0
DeliveredTexts(out) ==
  {out[i].text : i \in {j \in 1..Len(out) : out[j].ev = "message:updated" /\ out[j].status = "delivered"}}

Min(S) == CHOOSE x \in S : \A y \in S : x <= y
RECURSIVE ConcatAscending(_)
ConcatAscending(m) ==
  IF DOMAIN m = {} THEN EmptyText
  ELSE LET k == Min(DOMAIN m) IN m[k] \o ConcatAscending(MapDelete(m, k))

\* The last frame was the stream_end of the stream opened last by a
\* stream_start, and every delta delivered to it had a positive integer
\* seq, no seq twice.
EndedStartedStream ==
  /\ _extractMessageType(mpIn) = "stream_end"
  /\ mpHist.opened = "start"
  /\ mpIn.id # NoId
  /\ mpHist.id = MESSAGE_ID_PREFIX \o mpIn.id
  /\ ~mpHist.repeated
  /\ \A k \in DOMAIN mpHist.recv : k % 2 = 0 /\ k >= 2
Contiguous(m) == DOMAIN m = {2 * i : i \in 1..Cardinality(DOMAIN m)}

\* C1 (as stated): for any set of deltas with unique positive integer seqs
\* delivered between stream_start and stream_end, the final 'delivered'
\* update carries the chunks concatenated in ascending seq order.
C1_AnySeqsFinalText ==
  EndedStartedStream => DeliveredTexts(mp.out) = {ConcatAscending(mpHist.recv)}

\* C1 (amended): the same when the delivered seqs are exactly 1..n.
C1_ContiguousFinalText ==
  (EndedStartedStream /\ Contiguous(mpHist.recv))
    => DeliveredTexts(mp.out) = {ConcatAscending(mpHist.recv)}

C1_Witness ==
  /\ EndedStartedStream
  /\ Contiguous(mpHist.recv)
  /\ Cardinality(DOMAIN mpHist.recv) >= 2
  /\ mpHist.buffered
  /\ DeliveredTexts(mp.out) = {<<"b", "a">>}

TwoIdenticalMessages ==
  /\ Len(mpLog) = 2
  /\ mpLog[1].isMessage /\ mpLog[2].isMessage
  /\ mpLog[1].text = mpLog[2].text
  /\ mpLog[1].text # EmptyText
InWindow(text) == \E i \in 1..Len(mp.recentIncomingTexts) : mp.recentIncomingTexts[i] = text

\* C2 (as stated): two consecutive message frames with identical text yield
\* exactly one processed-message event.
C2_ExactlyOneProcessed ==
  TwoIdenticalMessages => mpLog[1].processed + mpLog[2].processed = 1

\* C2 (amended): two consecutive message frames with identical text yield no
\* processed-message event when the text is in the dedup window (a finalized
\* stream text), and one event each (two in total) when it is not.
C2_DedupAgainstWindowOnly ==
  TwoIdenticalMessages =>
    mpLog[1].processed + mpLog[2].processed = (IF InWindow(mpLog[1].text) THEN 0 ELSE 2)

C2_Witness ==
  /\ TwoIdenticalMessages
  /\ InWindow(mpLog[1].text)
  /\ _extractMessageType(mpIn) = "message"
  /\ mp.out = <<>>

SameButOut(s, t) == [s EXCEPT !.out = <<>>] = [t EXCEPT !.out = <<>>]
SpecInvalidSeq(seq) == ~(IsInteger(seq) /\ SeqGeq(seq, 1))

\* C3: a delta whose seq is <= 0, not an integer or not a number emits no
\* event and changes nothing in the processor.
C3_InvalidSeqNoChange ==
  [][(ProcessStep /\ IsDelta(mpIn') /\ SpecInvalidSeq(mpIn'.seq))
       => (mp'.out = <<>> /\ SameButOut(mp', mp))]_vars

\* C4: a delta repeating a seq already delivered to the active stream leaves
\* the stream's accumulated text unchanged and emits no update event.
C4_DuplicateDeltaKeepsText ==
  [][(ProcessStep /\ IsDelta(mpIn') /\ _isValidSequenceNumber(mpIn'.seq)
        /\ mp.activeStreamId # NoId /\ MapHas(mpHist.recv, mpIn'.seq.twice))
       => (/\ mp'.activeStreamId = mp.activeStreamId
           /\ MapHas(mp'.streams, mp.activeStreamId)
           /\ mp'.streams[mp.activeStreamId] = mp.streams[mp.activeStreamId]
           /\ ~HasEv(mp'.out, "message:updated"))]_vars

C4_Witness ==
  /\ IsDelta(mpIn)
  /\ mpHist.lastDup
  /\ mp.activeStreamId # NoId
  /\ mp.nextExpectedSeq > STREAM_INITIAL_SEQUENCE
  /\ mp.streams[mp.activeStreamId] # EmptyText

\* C5: once a valid delta of the active stream has been received (applied
\* or buffered), a typing_start frame raises no indicator and both
\* indicator flags are false afterwards.
C5_NoIndicatorAfterDelta ==
  [][(ProcessStep /\ _extractMessageType(mpIn') = "typing_start"
        /\ mp.activeStreamId # NoId /\ DOMAIN mpHist.recv # {}
        /\ \A k \in DOMAIN mpHist.recv : k % 2 = 0)
       => (/\ ~HasEv(mp'.out, "typing:start")
           /\ ~HasEv(mp'.out, "thinking:start")
           /\ ~mp'.isTypingActive
           /\ ~mp'.isThinkingActive)]_vars

(***************************************************************************)
(* A complete stream, and a stream whose stream_start was lost             *)
(***************************************************************************)
RECURSIVE StreamPrefix(_, _)
StreamPrefix(m, k) == IF k = 0 THEN EmptyText ELSE StreamPrefix(m, k - 1) \o m[2 * k]

\* The last frame was the stream_end of a stream opened by stream_start on
\* an idle processor that was fed the deltas seq 1..n in order, n >= 1.
InOrderStreamEnded ==
  /\ _extractMessageType(mpIn) = "stream_end"
  /\ mpHist.opened = "start"
  /\ mpHist.clean
  /\ mpHist.id = _getMessageIdFromRaw(mpIn)
  /\ DOMAIN mpHist.recv # {}

\* C11: stream_start(A), deltas seq 1..n in order, stream_end(A) on an idle
\* processor: the events are one processed message {msg_A, '', streaming},
\* then for k = 1..n an update with v1..vk and status streaming, then an
\* update with the full text and status delivered; afterwards no stream is
\* active, the stream record is gone and the dedup window holds the full text.
C11_InOrderStreamEvents ==
  InOrderStreamEnded =>
    LET n == Cardinality(DOMAIN mpHist.recv)
        E == mpHist.events
        full == StreamPrefix(mpHist.recv, n)
    IN /\ Len(E) = n + 2
       /\ E[1] = Event("message:processed", mpHist.id, EmptyText, "streaming")
       /\ \A k \in 1..n : E[k + 1] = Event("message:updated", mpHist.id, StreamPrefix(mpHist.recv, k), "streaming")
       /\ E[n + 2] = Event("message:updated", mpHist.id, full, "delivered")
       /\ mp.activeStreamId = NoId
       /\ ~MapHas(mp.streams, mpHist.id)
       /\ InWindow(full)

C11_Witness ==
  /\ InOrderStreamEnded
  /\ mpHist.id = "msg_A"
  /\ Cardinality(DOMAIN mpHist.recv) = 2
  /\ mp.recentIncomingTexts = <<<<"a", "b">>>>

ValidDelta(raw) == IsDelta(raw) /\ _isValidSequenceNumber(raw.seq) /\ IsInteger(raw.seq)
IsTextPrefix(t, u) == Len(t) <= Len(u) /\ SubSeq(u, 1, Len(t)) = t

\* C12: a valid delta arriving while no stream is active makes a synthetic
\* stream the active stream and emits the initial streaming message at once;
\* a valid delta following a valid delta of a synthetic stream goes to the
\* same stream: no further initial message, the text is not reset.
C12_SyntheticStreamKept ==
  [][(ProcessStep /\ ValidDelta(mpIn'))
       => (/\ mp.activeStreamId = NoId =>
                /\ mp'.activeStreamId # NoId
                /\ HasEv(mp'.out, "message:processed")
           /\ (nFrames > 0 /\ ValidDelta(mpIn) /\ mpHist.opened = "synthetic") =>
                /\ mp'.activeStreamId = mp.activeStreamId
                /\ ~HasEv(mp'.out, "message:processed")
                /\ \A k \in DOMAIN mp.streams :
                      MapHas(mp'.streams, k) /\ IsTextPrefix(mp.streams[k], mp'.streams[k]))]_vars

(***************************************************************************)
(* Reconnection                                                            *)
(***************************************************************************)
BackoffConfig ==
  /\ ws.autoReconnect
  /\ ws.retryStrategy.present
  /\ ~ws.retryStrategy.config.jitter
  /\ ws.retryStrategy.config.baseDelay = 1000
  /\ ws.retryStrategy.config.factor = 2

\* C6: with autoReconnect, base delay 1000, factor 2 and no jitter, after the
\* transport closes while connected and k reconnect attempts have failed,
\* the delays scheduled so far are 1000, 2000, 4000, ... : one per failed
\* attempt plus the first, up to maxReconnectAttempts of them.
C6_ExponentialSchedule ==
  (BackoffConfig /\ wsHist.lost) =>
     /\ Len(wsHist.sched) = MathMin(wsHist.failed + 1, ws.maxReconnectAttempts)
     /\ \A i \in 1..Len(wsHist.sched) : wsHist.sched[i] = 1000 * Pow(2, i - 1)

\* C7: with autoReconnect set, after the transport closes while connected,
\* also after a reconnect attempt whose socket closed before the handshake,
\* a reconnect is pending (timer armed) or in progress (connecting) until the
\* engine is connected again or reconnectAttempts has reached the maximum.
C7_KeepsReconnecting ==
  (ws.autoReconnect /\ wsHist.lost /\ ws.status # "connected"
     /\ ws.reconnectAttempts < ws.maxReconnectAttempts) =>
     (ws.reconnectTimer \/ ws.status = "connecting")

(***************************************************************************)
(* Status per message id                                                   *)
(***************************************************************************)
DeliveredIds(out) ==
  {out[i].id : i \in {j \in 1..Len(out) : out[j].ev = "message:updated" /\ out[j].status = "delivered"}}
StreamingIds(out) ==
  {out[i].id : i \in {j \in 1..Len(out) : out[j].status = "streaming"}}

\* C15: the status reported for a message id never moves backward; here for
\* streaming -> delivered: a message id that the events of one frame reported
\* 'delivered' is not reported 'streaming' by the events of the next frame.
C15_NoStreamingAfterDelivered ==
  [][ProcessStep => DeliveredIds(mp.out) \cap StreamingIds(mp'.out) = {}]_vars

(***************************************************************************)
(* Handshake                                                               *)
(***************************************************************************)
\* C13: the status becomes 'connected' only when ready_for_message arrives on
\* the open transport, never when the transport merely opens; at that
\* transition reconnectAttempts is 0 and the retry strategy's counter is 0.
C13_ConnectedOnlyOnReady ==
  [][/\ (ws.socket = "CONNECTING" /\ ws'.socket = "OPEN") => ws'.status # "connected"
     /\ (ws'.status = "connected" /\ ws.status # "connected") =>
           /\ ws.socket = "OPEN" /\ ws'.socket = "OPEN"
           /\ ~ws.handshaken /\ ws'.handshaken
           /\ ws'.reconnectAttempts = 0
           /\ ws'.retryStrategy.present => ws'.retryStrategy.attempts = 0]_vars

\* The handshake of a reconnect attempt has just completed.
C13_Witness ==
  /\ ws.status = "connected"
  /\ HasEv(ws.out, "connected")
  /\ wsHist.readyAt > 0
  /\ ws.retryStrategy.present
  /\ ws.reconnectAttempts = 0

RegistrationFailed(w) ==
  \E i \in DOMAIN w.out : w.out[i] = Event("error", NoId, EmptyText, "Registration failed")

\* C17: when the transport opens and sending the register frame fails, the
\* pending connect() promise is rejected and an error event is emitted.
C17_RegisterFailureRejectsConnect ==
  [][(ws.socket = "CONNECTING" /\ ws'.socket = "OPEN" /\ ws.connectPromise = "pending"
        /\ RegistrationFailed(ws'))
       => (ws'.connectPromise = "rejected" /\ HasEv(ws'.out, "error"))]_vars

CountSettled(w, outcome) == Len(SelectSeq(w.settled, LAMBDA p : p.outcome = outcome))
CountWaited(w) == Len(SelectSeq(w.settled, LAMBDA p : p.branch = "connecting"))
FramesWritten(w) == Len(SelectSeq(w.wire, LAMBDA f : f # "ping"))

\* What one handler did with the send() promises it settled.
SettledRight(w) ==
  /\ \A i \in DOMAIN w.settled :
        /\ w.settled[i].outcome \in {"resolved", "rejected"}
        /\ w.settled[i].outcome = "resolved" <=> w.settled[i].written = 1
        /\ w.settled[i].outcome = "rejected" <=> w.settled[i].written = 0
        /\ w.settled[i].branch = "none" => w.settled[i].outcome = "rejected"
  /\ CountEv(w.out, "message:sent") = CountSettled(w, "resolved")
  /\ FramesWritten(w) = CountSettled(w, "resolved")

\* C18: a send() promise resolves, with one message:sent event, exactly when
\* its frame was written to an open socket; it is rejected without
\* message:sent when there is no socket or the socket is closed; a send made
\* while the socket is connecting stays pending until that socket opens
\* (then it is written and resolved, or rejected when the write throws) or
\* fails or closes (then it is rejected), also when the socket was dropped by
\* disconnect() in between; no promise is settled twice or left on a socket
\* that has no event to come.
C18_SendSettles ==
  [][/\ SettledRight(ws')
     /\ \A i \in DOMAIN ws'.pendingSends :
           \/ ws'.pendingSends[i].sock = 0 /\ ws'.socket = "CONNECTING"
           \/ ws'.pendingSends[i].sock \in 1..ws'.stale
     /\ Len(ws'.pendingSends) + CountWaited(ws') \in {Len(ws.pendingSends), Len(ws.pendingSends) + 1}
     /\ (ws.socket = "CONNECTING" /\ ws'.socket = "OPEN") =>
           /\ PendingOn(ws', 0) = <<>>
           /\ CountWaited(ws') = Len(PendingOn(ws, 0))
     /\ (ws.socket = "CONNECTING" /\ ws'.socket = "CLOSED") =>
           /\ CountWaited(ws') = Len(PendingOn(ws, 0))
           /\ \A i \in DOMAIN ws'.settled : ws'.settled[i].outcome = "rejected"
     /\ (ws.socket = "CONNECTING" /\ ws'.socket = NoSocket) =>
           /\ Len(PendingOn(ws', ws'.stale)) = Len(PendingOn(ws, 0))
           /\ ws'.settled = <<>>
     /\ ws'.stale < ws.stale =>
           /\ CountWaited(ws') = Len(PendingOn(ws, 1))
           /\ \A i \in DOMAIN ws'.settled : ws'.settled[i].outcome = "rejected"]_vars

\* A send made while connecting was written and resolved when the socket
\* opened, after the register frame.
C18_Witness ==
  /\ ws.socket = "OPEN"
  /\ ws.settled = <<Settled("resolved", "open", 1), Settled("resolved", "connecting", 1)>>
  /\ ws.wire = <<"register", "message">>

(***************************************************************************)
(* The service: conversation view, destroy, clearMessages and reset        *)
(***************************************************************************)
\* Messages built from a frame without id have the id undefined ("null");
\* they are left out here.
DistinctIds(list) ==
  \A i, j \in DOMAIN list :
     (i # j /\ list[i].kind = "object" /\ list[j].kind = "object" /\ list[i].id # NoId)
        => list[i].id # list[j].id

\* C14: no two messages of the view's message list, and no two messages of
\* the session's conversation log, have the same id.
C14_UniqueMessageIds ==
  /\ DistinctIds(state.messages)
  /\ DistinctIds(sm.session.conversation)

\* C19: after destroy() no timer of any component is armed: keep-alive,
\* reconnect, indicator timeout and deferred typing start, session
\* auto-clear, contact timeout, delivery queue.
C19_NoTimerAfterDestroy ==
  ~svc.listeners =>
     /\ ~ws.pingTimer /\ ~ws.reconnectTimer
     /\ mp.typingTimer = "none"
     /\ ~mp.isProcessing
     /\ sm.clearTimer = NoTimer /\ sm.contactTimeoutTimer = NoTimer

\* C20: clearMessages empties the message list and leaves the session (in
\* the view and in the session manager), the connection state, the context,
\* the indicator flags and the error as they were; reset returns every
\* field of the view to its default.
C20_ClearMessagesAndReset ==
  [][/\ svc'.op.name = "clearMessages" =>
           /\ state'.messages = <<>>
           /\ state' = [state EXCEPT !.messages = <<>>]
           /\ sm'.session = sm.session
           /\ ws'.status = ws.status
     /\ svc'.op.name = "clearSession" =>
           /\ state'.messages = <<>> /\ ~state'.session.set /\ state'.session.id = NullStr
           /\ state'.connection = [status |-> "disconnected", reconnectAttempts |-> 0, lastError |-> NoError]
           /\ state'.context = EmptyText /\ ~state'.isTyping /\ ~state'.isThinking
           /\ state'.error = NoError]_vars

\* clearMessages has just emptied a list of two messages of a view that
\* holds a session, a connection, a context and an indicator flag.
C20_Witness ==
  /\ svc.op = [name |-> "clearMessages", had |-> 2]
  /\ state.messages = <<>>
  /\ state.session.set /\ sm.session.exists
  /\ state.connection.status = "connected"
  /\ state.context # EmptyText
  /\ state.isTyping

(***************************************************************************)
(* Session restore, identity and conversation persistence                  *)
(***************************************************************************)
\* C8: when the persisted session has lastMessageSentAt older than now minus
\* the contact timeout, restore() emits contact:timeout:maximum_time_reached
\* at once, returns the session and keeps it loaded.
C8_RestoreExpiredKeepsSession ==
  (smOp.name = "restore" /\ smOp.expired) =>
     /\ \E i \in 1..Len(sm.out) : sm.out[i].ev = CONTACT_TIMEOUT_MAXIMUM_TIME_REACHED
     /\ sm.ret.exists
     /\ sm.session.exists

\* C9: getOrCreate() returns the id of the loaded session when that id matches
\* ^\d+@.+$, and otherwise the id of a session whose id matches it: the
\* returned id always matches, whatever clientId or sessionId is configured.
C9_ReturnedIdMatchesFormat ==
  (smOp.name = "getOrCreate") =>
     /\ sm.ret.exists
     /\ _isValidSessionIdFormat(sm.ret.id)
     /\ (smOp.loaded.exists /\ _isValidSessionIdFormat(smOp.loaded.id)) => sm.ret.id = smOp.loaded.id

\* C10: after appendToConversation(m) of a message object m on a live
\* session, for any limit option, a fresh engine over the same storage
\* restores a session whose conversation ends with m.
C10_AppendSurvivesRoundTrip ==
  (smOp.name = "restore" /\ smOp.m.kind = "object") =>
     /\ sm.session.exists
     /\ Len(sm.session.conversation) > 0
     /\ sm.session.conversation[Len(sm.session.conversation)] = smOp.m

(***************************************************************************)
(* Indicators: expiry                                                      *)
(***************************************************************************)
\* The message processor with its timer firing fairly: an armed indicator
\* timer (typingDelay, typingTimeout) eventually fires unless it is cleared.
SpecFair == Init /\ [][Next]_vars /\ WF_vars(TypingTimerFires)

IndicatorActive == mp.isTypingActive \/ mp.isThinkingActive

\* C21: an indicator that became active (typing_start frame, or deferred
\* start after a sent message) is cleared again: under fair timer firing
\* every state with an active indicator is followed by one without.
C21_IndicatorExpires == IndicatorActive ~> ~IndicatorActive

(***************************************************************************)
(* Session auto-clear                                                      *)
(***************************************************************************)
\* C22: the auto-clear timer clears a session only when cacheTimeout has
\* elapsed since the session's lastActivity; a session that was active less
\* than cacheTimeout ago is not auto-cleared.
C22_AutoClearOnlyWhenInactive ==
  [][(smOp'.name = "autoClearTimer" /\ sm.session.exists)
        => smEnv.now - sm.session.lastActivity >= sm.config.cacheTimeout]_vars

(***************************************************************************)
(* Storage quota                                                           *)
(***************************************************************************)
\* setItem(key, envelope of value) succeeds on this store
Fits(st, value) == ItemLength(Envelope(0, value)) + ItemLength(st.other) <= st.quota

\* C23: when a write of the session hit the quota and the eviction freed
\* enough space for it, the session is stored after the operation.
C23_QuotaRetryStores ==
  [][(/\ smOp'.name \in {"getOrCreate", "createNewSession", "restore", "setLastMessageSentAt",
                         "appendToConversation", "setConversation"}
      /\ sm'.session.exists
      /\ ~Fits(sm.storage, sm'.session)
      /\ Fits(sm'.storage, sm'.session))
        => get(sm'.storage) = JsonRoundTrip(sm'.session)]_vars

(***************************************************************************)
(* History requests                                                        *)
(***************************************************************************)
\* C24: the loading flag is true exactly while one history request is
\* pending, and a pending request has its timeout armed and its response
\* listener registered, so that it settles by the response or by the timeout.
C24_LoadingIffPending ==
  /\ hm.loading <=> Pending(hm) # {}
  /\ Cardinality(Pending(hm)) <= 1
  /\ \A i \in Pending(hm) : hm.requests[i].timeout /\ hm.requests[i].listening

(***************************************************************************)
(* Retry policy                                                            *)
(***************************************************************************)
\* x = min(baseDelay * factor^n, maxDelay), in units of 1/den milliseconds
CappedDelay(c, n) == MathMin(c.baseDelay * Pow(c.factor, n), c.maxDelay * Pow(c.factorDen, n))

NextAndReset ==
  /\ rs.op.name = "next" => rs.op.delay = getDelay(rs.r, rs.op.n, 0) /\ rs.r.attempts = rs.op.n + 1
  /\ rs.op.name = "reset" => rs.r.attempts = 0

\* C25 (as stated): with jitter disabled, for every attempt number n,
\* getDelay(n) = min(baseDelay * factor^n, maxDelay) and
\* delay(n) <= delay(n+1) <= maxDelay; next() returns the delay for the
\* current counter and increments it; reset() sets the counter to 0.
C25_RetryDelays ==
  ~rs.r.config.jitter =>
     /\ \A n \in 0..MaxAttempts :
          /\ getDelay(rs.r, n, 0) * Pow(rs.r.config.factorDen, n) = CappedDelay(rs.r.config, n)
          /\ getDelay(rs.r, n, 0) <= getDelay(rs.r, n + 1, 0)
          /\ getDelay(rs.r, n + 1, 0) <= rs.r.config.maxDelay
     /\ NextAndReset

\* C25 (amended): the same for factor >= 1, getDelay(n) being the integer
\* part of min(baseDelay * factor^n, maxDelay).
C25_RetryDelaysFactorAtLeastOne ==
  (~rs.r.config.jitter /\ rs.r.config.factor >= rs.r.config.factorDen) =>
     /\ \A n \in 0..MaxAttempts :
          /\ getDelay(rs.r, n, 0) * Pow(rs.r.config.factorDen, n) <= CappedDelay(rs.r.config, n)
          /\ CappedDelay(rs.r.config, n) < (getDelay(rs.r, n, 0) + 1) * Pow(rs.r.config.factorDen, n)
          /\ getDelay(rs.r, n, 0) <= getDelay(rs.r, n + 1, 0)
          /\ getDelay(rs.r, n + 1, 0) <= rs.r.config.maxDelay
     /\ NextAndReset

\* next() has been called four times on a strategy with base 1000, factor
\* 1.5, cap 30000 and no jitter; the fourth call returned 3375.
C25_Witness ==
  /\ ~rs.r.config.jitter
  /\ rs.r.config.baseDelay = 1000 /\ rs.r.config.maxDelay = 30000
  /\ rs.r.config.factor = 3 /\ rs.r.config.factorDen = 2
  /\ rs.op = [name |-> "next", n |-> 3, delay |-> 3375]
  /\ rs.r.attempts = 4

(***************************************************************************)
(* Streams: one stream at a time, ordered updates, delivery queue          *)
(***************************************************************************)
\* C26: the stream-record map holds no record other than the active
\* stream's (the record a delta without id leaves under the id undefined is
\* left out here).
C26_OnlyActiveStreamRecord ==
  \A k \in DOMAIN mp.streams : k # NoId => k = mp.activeStreamId

\* every message:updated event of out carries a text that extends the text
\* of the previous update for the same id (last = the texts before out)
RECURSIVE UpdatesExtend(_, _)
UpdatesExtend(last, out) ==
  IF out = <<>> THEN TRUE
  ELSE LET e == Head(out)
           isUpdate == e.ev = "message:updated" /\ e.id # NoId
       IN /\ (isUpdate /\ MapHas(last, e.id)) => IsTextPrefix(last[e.id], e.text)
          /\ UpdatesExtend(IF isUpdate THEN MapSet(last, e.id, e.text) ELSE last, Tail(out))

\* C27: for each stream id the text never shrinks and is never rewritten:
\* the text of every update event for an id has the text of the previous
\* update for that id as a prefix.
C27_UpdatesExtendText == [][UpdatesExtend(mpUpd, mp'.out)]_vars

\* C28: processed messages are emitted in the order their frames were
\* accepted, and two consecutive emissions are separated by a messageDelay
\* wait: a frame handled right after a handler that emitted a processed
\* message (no delay has elapsed in between) is queued, not emitted.
C28_EmissionsSpaced ==
  [][(CountEv(mp.out, "message:processed") > 0 /\ nFrames' = nFrames + 1)
        => (CountEv(mp'.out, "message:processed") = 0 /\ Len(mp'.queue) >= Len(mp.queue))]_vars

(***************************************************************************)
(* Connection: close events and disconnect()                               *)
(***************************************************************************)
CloseEvent == SocketClose \/ StaleSocketClose

ShouldReconnect(w) ==
  w.status = "connected" /\ w.autoReconnect /\ w.reconnectAttempts < w.maxReconnectAttempts

\* C29: on a close event the engine moves to 'reconnecting' exactly when it
\* was 'connected', autoReconnect is set and reconnectAttempts is below
\* maxReconnectAttempts; otherwise it rests in 'disconnected' with no
\* reconnect timer armed.
C29_ReconnectingIffConnected ==
  [][CloseEvent =>
       IF ShouldReconnect(ws)
       THEN ws'.status = "reconnecting" /\ ws'.reconnectTimer
       ELSE ws'.status = "disconnected" /\ ~ws'.reconnectTimer]_vars

ContactEvents(s) == CountEv(s.out, CONTACT_TIMEOUT_MAXIMUM_TIME_REACHED)

\* At most one contact-timeout timer is pending, it is the one the engine
\* holds, and its deadline is lastMessageSentAt + contactTimeout of the
\* session in memory.
OneContactTimer(s) ==
  /\ Len(s.contactTimers) <= 1
  /\ s.contactTimeoutTimer = NoTimer => s.contactTimers = <<>>
  /\ s.contactTimeoutTimer # NoTimer =>
       /\ s.contactTimers = <<s.contactTimeoutTimer>>
       /\ s.session.exists
       /\ s.contactTimeoutTimer = s.session.lastMessageSentAt + _getContactTimeoutMs(s)

\* C31: at most one contact-timeout timer is armed at any time;
\* setLastMessageSentAt(t) with t + contactTimeout in the future leaves
\* exactly the timer for t + contactTimeout pending, whatever was armed
\* before; the timer that fires is the one of the current lastMessageSentAt,
\* it emits one contact:timeout:maximum_time_reached event and leaves no
\* timer pending; clear() leaves no timer pending.
C31_OneContactTimer ==
  [][/\ OneContactTimer(sm')
     /\ (smOp'.name = "setLastMessageSentAt" /\ sm.session.exists) =>
          sm'.contactTimers = <<smEnv.now + _getContactTimeoutMs(sm)>>
     /\ smOp'.name = "contactTimeoutTimer" =>
          /\ sm.contactTimers = <<sm.session.lastMessageSentAt + _getContactTimeoutMs(sm)>>
          /\ ContactEvents(sm') = 1
          /\ sm'.contactTimers = <<>>
     /\ smOp'.name \in {"clear", "autoClearTimer"} => sm'.contactTimers = <<>>
     /\ smOp'.name \notin {"contactTimeoutTimer", "setLastMessageSentAt", "restore"} =>
          ContactEvents(sm') = 0]_vars

\* setLastMessageSentAt has just replaced a timer armed for an earlier
\* deadline: the only pending timer is the one for the new deadline.
C31_Witness ==
  /\ smOp.name = "setLastMessageSentAt"
  /\ smOp.hadTimer
  /\ sm.session.lastMessageSentAt = 2 * MsPerMinute
  /\ sm.contactTimers = <<2 * MsPerMinute + _getContactTimeoutMs(sm)>>

(***************************************************************************)
(* Session identity                                                        *)
(***************************************************************************)
\* C32: while the session is non-null its id never changes: a step of the
\* session engine that starts and ends with a session leaves the id as it
\* was (a different id needs clear() and then createNewSession()).
C32_IdentityKept ==
  [][(sm.session.exists /\ sm'.session.exists /\ smOp'.name # "newEngine")
       => sm'.session.id = sm.session.id]_vars

(***************************************************************************)
(* Dedup window: size and order                                            *)
(***************************************************************************)
\* C33: the dedup window never holds more than 5 entries, none of them
\* empty, and it is exactly the last (up to 5) non-empty final texts of the
\* streams in the order they were finalized.
C33_WindowIsLastFive ==
  /\ Len(mp.recentIncomingTexts) <= 5
  /\ \A i \in DOMAIN mp.recentIncomingTexts : mp.recentIncomingTexts[i] # EmptyText
  /\ mp.recentIncomingTexts = mpFinal

\* Two streams were finalized on a window that held five texts: the two
\* oldest texts are gone and the two new ones are the newest entries.
C33_Witness ==
  /\ mp.recentIncomingTexts =
       <<<<"a", "a">>, <<"a", "b">>, <<"b", "a">>, <<"b">>, <<"a">>>>
  /\ mpIn.type = "stream_end"

(***************************************************************************)
(* Indicators: cleared by inbound messages                                 *)
(***************************************************************************)
ClearsIndicators(raw) ==
  \/ _extractMessageType(raw) = "message"
  \/ _extractMessageType(raw) = "stream_end" /\ _getMessageIdFromRaw(raw) # NoId

\* C34: right after a message frame or a stream_end frame with an id has
\* been processed, neither indicator is active, and the handler emitted
\* typing:stop if typing was active and thinking:stop if thinking was active.
C34_IndicatorsCleared ==
  [][(ProcessStep /\ ClearsIndicators(mpIn')) =>
       /\ ~mp'.isTypingActive
       /\ ~mp'.isThinkingActive
       /\ mp.isTypingActive => HasEv(mp'.out, "typing:stop")
       /\ mp.isThinkingActive => HasEv(mp'.out, "thinking:stop")]_vars

\* A stream_end with an id has just been processed while both indicators
\* were active: both stop events were emitted.
C34_Witness ==
  /\ _extractMessageType(mpIn) = "stream_end"
  /\ _getMessageIdFromRaw(mpIn) # NoId
  /\ HasEv(mp.out, "typing:stop")
  /\ HasEv(mp.out, "thinking:stop")
  /\ ~mp.isTypingActive
  /\ ~mp.isThinkingActive

(***************************************************************************)
(* Indicators: the deferred typing start                                   *)
(***************************************************************************)
\* C36: an inbound message cancels the deferred typing start armed by
\* startTypingOnMessageSent: once a message frame has been processed, the
\* step that follows it emits typing:start only if it is the handler of a
\* new frame (a timer that fires or a send emits none).
C36_ReplyCancelsDeferredStart ==
  [][(_extractMessageType(mpIn) = "message" /\ ~ProcessStep) => ~HasEv(mp'.out, "typing:start")]_vars

(***************************************************************************)
(* Close events of sockets that are no longer current                      *)
(***************************************************************************)
\* C40: the close event of a socket that is no longer the engine's current
\* socket (closed by disconnect() or replaced by a later connect()) changes
\* neither the connection status, nor the keep-alive timer, nor
\* isRegistered, and schedules no reconnect.
C40_StaleCloseIgnored ==
  [][StaleSocketClose =>
       /\ ws'.status = ws.status
       /\ ws'.pingTimer = ws.pingTimer
       /\ ws'.isRegistered = ws.isRegistered
       /\ ws'.reconnectTimer = ws.reconnectTimer]_vars

(***************************************************************************)
(* The view and the conversation log                                       *)
(***************************************************************************)
\* same message ids in the same order, each with the same status
SameMessages(a, b) ==
  /\ Len(a) = Len(b)
  /\ \A i \in DOMAIN a : a[i].id = b[i].id /\ a[i].status = b[i].status

\* C35: whenever a session exists, the view's message list and the
\* session's conversation log agree after every completed send and every
\* processed inbound message: a sendMessage or an inbound frame that starts
\* with the two in agreement ends with them in agreement.
C35_ViewMatchesLog ==
  [][((SendMessage \/ SimulateMessageReceived)
        /\ sm.session.exists /\ sm'.session.exists
        /\ SameMessages(state.messages, sm.session.conversation))
       => SameMessages(state'.messages, sm'.session.conversation)]_vars

(***************************************************************************)
(* The service and the connection                                          *)
(***************************************************************************)
\* C37: isConnected() is true whenever the status of the connection engine
\* is 'connected', also after an automatic reconnect.
C37_IsConnectedWhenConnected ==
  ws.status = "connected" => isConnected([svc |-> svc, ws |-> ws])

\* sendMessage has written its frame: websocket.send resolved, so the
\* view shows the message as sent
FrameSent ==
  /\ SendMessage
  /\ \E i \in DOMAIN state'.messages : state'.messages[i] = Message(OutIds[svc'.nSent], "sent")

\* C38: every message frame sendMessage produces carries a non-null from,
\* the id of the current session (the payload is built right after
\* appendToConversation, from the session the step ends with), and the sent
\* message is the last entry of that session's conversation.
C38_SentFromCurrentSession ==
  [][FrameSent =>
       /\ getSessionId(sm') # NullStr
       /\ sm'.session.conversation # <<>>
       /\ sm'.session.conversation[Len(sm'.session.conversation)].id = OutIds[svc'.nSent]]_vars

\* C39: every connect() call of the service eventually settles: the
\* service does not stay connecting forever.
C39_ConnectSettles == svc._connecting ~> ~svc._connecting

====
